---------------------------- MODULE Spec2Model ----------------------------
(***************************************************************************)
(* Charging-price scraper: the tiered acquisition of QuickScraper          *)
(* (quick_scrape.py), the reconciliation pass of ScraperRunner             *)
(* (scraper_runner.py) and the DataConverter helpers (data_converter.py).  *)
(*                                                                         *)
(* Prices are kept in hundredths of a currency unit (8,50 TL = 850), so    *)
(* the plausible range 4.0 .. 35.0 of the code is 400 .. 3500.             *)
(* A URL is a record [netloc, path]; netloc is a sequence of host tokens,  *)
(* so that str.replace('www.', '') and str.lower() are real conversions.   *)
(* A Python dict is a sequence of [key, val] pairs in insertion order.     *)
(***************************************************************************)
EXTENDS Integers, Sequences, FiniteSets, TLC

VARIABLES
    dataset,            \* data/charging_prices_standard.json: sequence of records
    urls,               \* config.CHARGING_STATION_URLS of the running pass
    selenium_available, \* quick_scrape.SELENIUM_AVAILABLE of the running process
    fallback_prices,    \* QuickScraper.fallback_prices: function URL -> [ac, dc]
    pc,                 \* "idle" | "scraping" | "done"
    idx,                \* loop position of QuickScraper.scrape_all (1-based)
    scrape_results,     \* dict URL -> result, as a sequence of [key, val]
    log,                \* per scraped URL: the steps scrape_url ran, whether the
                        \* fetch failed, and the prices extracted from the page
    existing,           \* the dataset read by the last _process_and_save_results
    new_data,           \* new_data of the last _process_and_save_results (before dedup)
    summary,            \* ScraperRunner.scrape_all's results counters
    returned,           \* the dict a caller holds from scrape_url: <<>> or <<dict>>
    call,               \* the arguments of the text helper under call: a record
                        \* of its parameters, <<>> when none is called
    ret                 \* what the called helper returned: <<>> before the return

vars == <<dataset, urls, selenium_available, fallback_prices, pc, idx,
          scrape_results, log, existing, new_data, summary, returned,
          call, ret>>

-----------------------------------------------------------------------------
(* Bounds *)

MaxBatch == 2      \* URLs in one configured batch
MaxSeed == 1       \* raw entries behind the dataset present at start
MaxTokens == 2     \* numeric matches on one page
MaxRaw == 2        \* items of the raw data handed to DataConverter
MaxList == 3       \* length of a price list a caller appends to
MaxHydrate == 2    \* records of a dataset file the constructor hydrates from
MaxPhrases == 2    \* phrases in one text handed to an extraction helper
MaxSegments == 4   \* segments in one text handed to the classifier

-----------------------------------------------------------------------------
(* Python values *)

None == -1

\* bool(x) of a price field: None and 0 are falsy
Truthy(p) == p # None /\ p # 0

MinPrice == 400     \* 4.0
MaxPrice == 3500    \* 35.0

SeqToSet(s) == {s[i] : i \in 1..Len(s)}

RECURSIVE SortedSeq(_)
\* sorted(list(S)) for a finite set of integers
SortedSeq(S) ==
    IF S = {} THEN <<>>
    ELSE LET m == CHOOSE x \in S : \A y \in S : x <= y
         IN <<m>> \o SortedSeq(S \ {m})

\* min(list) / max(list) of a non-empty list
PyMin(s) == CHOOSE x \in SeqToSet(s) : \A y \in SeqToSet(s) : x <= y
PyMax(s) == CHOOSE x \in SeqToSet(s) : \A y \in SeqToSet(s) : x >= y

\* key in dict
DictHas(d, k) == \E i \in 1..Len(d) : d[i].key = k

\* dict[key]
DictGet(d, k) == d[CHOOSE i \in 1..Len(d) : d[i].key = k].val

\* dict[key] = val : in place when the key exists, appended otherwise
DictSet(d, k, v) ==
    IF DictHas(d, k)
    THEN [i \in 1..Len(d) |-> IF d[i].key = k THEN [key |-> k, val |-> v] ELSE d[i]]
    ELSE Append(d, [key |-> k, val |-> v])

DictKeys(d) == [i \in 1..Len(d) |-> d[i].key]

\* list.index(x): position of the first element equal to x
ListIndex(s, x) == CHOOSE i \in 1..Len(s) : s[i] = x /\ \A j \in 1..(i-1) : s[j] # x

-----------------------------------------------------------------------------
(* URLs and host names *)

LowerTok(t) ==
    CASE t = "WWW." -> "www."
      [] t = "Alfa" -> "alfa"
      [] OTHER -> t

TitleTok(t) ==
    CASE t = "www." -> "Www."
      [] t = "WWW." -> "Www."
      [] t = "alfa" -> "Alfa"
      [] t = "beta" -> "Beta"
      [] OTHER -> t

\* netloc.replace('www.', ''): only the lower-case spelling is removed
ReplaceWww(netloc) == SelectSeq(netloc, LAMBDA t : t # "www.")

\* urlparse(url).netloc.replace('www.', '').lower()
normalize_domain(url) ==
    LET netloc == ReplaceWww(url.netloc)
    IN [i \in 1..Len(netloc) |-> LowerTok(netloc[i])]

\* url.split('/')[2].replace('www.', '').title()
company_name(url) ==
    LET netloc == ReplaceWww(url.netloc)
    IN [i \in 1..Len(netloc) |-> TitleTok(netloc[i])]

\* https://www.alfa/tarifeler, https://Alfa/fiyat and https://beta
UrlA1 == [netloc |-> <<"www.", "alfa">>, path |-> "/tarifeler"]
UrlA2 == [netloc |-> <<"Alfa">>, path |-> "/fiyat"]
UrlB == [netloc |-> <<"beta">>, path |-> ""]

\* the URLs a configuration or a dataset may name
URLS == {UrlA1, UrlA2, UrlB}

\* QuickScraper.js_sites (keys)
js_sites == {UrlA2}

\* QuickScraper.force_prices: the empty dict
force_prices == [u \in {} |-> [ac |-> <<>>, dc |-> <<>>]]

\* QuickScraper.fallback_prices as written in __init__ (the manual entries)
manual_fallback == [u \in {UrlA1} |-> [ac |-> <<599>>, dc |-> <<799>>]]

\* logo_map.get(url) over data/logo_map.json; "None" is the JSON null
logo_map(url) == IF url = UrlA2 THEN "logo-alfa" ELSE "None"

-----------------------------------------------------------------------------
(* QuickScraper *)

InRange(p) == MinPrice <= p /\ p <= MaxPrice

\* HydrateField accepting every non-null price
HydrateField_any(price) == IF price # None THEN <<price>> ELSE <<>>

\* one price field of a dataset entry, as hydration reads it
HydrateField(price) == IF price # None /\ InRange(price) THEN <<price>> ELSE <<>>

RECURSIVE HydrateFrom(_, _, _)
\* the hydration loop without the "url in self.fallback_prices" test
HydrateFrom_overwrite(entries, i, table) ==
    IF i > Len(entries) THEN table
    ELSE LET url == entries[i].webSitesi
             hydrated == [ac |-> HydrateField(entries[i].acFiyat),
                          dc |-> HydrateField(entries[i].dcFiyat)]
         IN IF hydrated.ac # <<>> \/ hydrated.dc # <<>>
            THEN HydrateFrom(entries, i + 1,
                     [u \in DOMAIN table \cup {url} |->
                         IF u = url THEN hydrated ELSE table[u]])
            ELSE HydrateFrom(entries, i + 1, table)

\* the loop of _hydrate_fallbacks_from_latest_data over entries[i..]
HydrateFrom(entries, i, table) ==
    IF i > Len(entries) THEN table
    ELSE LET url == entries[i].webSitesi
             hydrated == [ac |-> HydrateField(entries[i].acFiyat),
                          dc |-> HydrateField(entries[i].dcFiyat)]
         IN IF url \in DOMAIN table
            THEN HydrateFrom(entries, i + 1, table)
            ELSE IF hydrated.ac # <<>> \/ hydrated.dc # <<>>
                 THEN HydrateFrom(entries, i + 1,
                          [u \in DOMAIN table \cup {url} |->
                              IF u = url THEN hydrated ELSE table[u]])
                 ELSE HydrateFrom(entries, i + 1, table)

\* QuickScraper.__init__: the manual table, then hydration from the dataset file
QuickScraperInit(file) == HydrateFrom(file, 1, manual_fallback)

\* the values a numeric match of the page text may carry (3.50, 8.50, 10.99)
PageValues == {350, 850, 1099}

\* the pages: the matches of price_pattern in the text, each with its value
\* and whether [./-]\d{2,4} follows it
Pages == UNION {[1..n -> [val : PageValues, dated : BOOLEAN]] : n \in 0..MaxTokens}

\* extract_prices without "sorted(list(set(prices)))": the prices as appended
extract_prices_appended(page, price_type) ==
    LET kept == SelectSeq(page, LAMBDA match : ~match.dated /\ InRange(match.val))
    IN [i \in 1..Len(kept) |-> kept[i].val]

\* extract_prices reading price_type: the prices are taken as AC prices only
extract_prices_typed(page, price_type) ==
    IF price_type = "ac" THEN SortedSeq(SeqToSet(extract_prices_appended(page, price_type)))
    ELSE <<>>

\* _extract_prices: price_type is not used
extract_prices(page, price_type) ==
    SortedSeq({page[i].val : i \in {j \in 1..Len(page) :
                   ~page[j].dated /\ InRange(page[j].val)}})

NoStatus == "absent"

\* dict.copy() of a fallback or force entry: the keys 'ac' and 'dc', no 'status'
EntryCopy(e) == [ac |-> e.ac, dc |-> e.dc, status |-> NoStatus]

EmptyResult(st) == [ac |-> <<>>, dc |-> <<>>, status |-> st]

\* nothing extracted: the fetch failed or was not made
NoLive == [ac |-> <<>>, dc |-> <<>>]

\* "if url in self.fallback_prices: return copy" else the empty result st
FallbackOr(url, table, st) ==
    IF url \in DOMAIN table THEN EntryCopy(table[url]) ELSE EmptyResult(st)

\* what the environment does to one URL: does the driver start, does the
\* fetch (requests.get / driver.get) succeed, and the text it returns
Envs ==
    {[driver |-> "fail", fetch |-> "error", page |-> <<>>],
     [driver |-> "ok", fetch |-> "error", page |-> <<>>]}
        \cup [driver : {"ok"}, fetch : {"ok"}, page : Pages]

\* scrape_with_selenium whose except path returns without driver.quit()
scrape_with_selenium_leak(url, table, sel, env) ==
    IF ~sel
    THEN [result |-> FallbackOr(url, table, "no_selenium"),
          tiers |-> <<"fallback">>, failed |-> TRUE, live |-> NoLive]
    ELSE IF env.driver = "fail"
    THEN [result |-> FallbackOr(url, table, "selenium_error"),
          tiers |-> <<"fallback">>, failed |-> TRUE, live |-> NoLive]
    ELSE IF env.fetch = "error"
    THEN [result |-> FallbackOr(url, table, "selenium_error"),
          tiers |-> <<"acquire", "rendered", "fallback">>,
          failed |-> TRUE, live |-> NoLive]
    ELSE LET ac_prices == extract_prices(env.page, "ac")
             dc_prices == extract_prices(env.page, "dc")
         IN IF ac_prices # <<>> \/ dc_prices # <<>>
            THEN [result |-> [ac |-> ac_prices, dc |-> dc_prices,
                              status |-> "selenium_success"],
                  tiers |-> <<"acquire", "rendered", "quit">>,
                  failed |-> FALSE,
                  live |-> [ac |-> ac_prices, dc |-> dc_prices]]
            ELSE [result |-> FallbackOr(url, table, "selenium_no_prices"),
                  tiers |-> <<"acquire", "rendered", "fallback", "quit">>,
                  failed |-> FALSE,
                  live |-> [ac |-> ac_prices, dc |-> dc_prices]]

\* scrape_with_selenium; tiers lists the steps in the order they run
scrape_with_selenium(url, table, sel, env) ==
    IF ~sel
    THEN [result |-> FallbackOr(url, table, "no_selenium"),
          tiers |-> <<"fallback">>, failed |-> TRUE, live |-> NoLive]
    ELSE IF env.driver = "fail"
    THEN [result |-> FallbackOr(url, table, "selenium_error"),
          tiers |-> <<"fallback">>, failed |-> TRUE, live |-> NoLive]
    ELSE IF env.fetch = "error"
    THEN [result |-> FallbackOr(url, table, "selenium_error"),
          tiers |-> <<"acquire", "rendered", "fallback", "quit">>,
          failed |-> TRUE, live |-> NoLive]
    ELSE LET ac_prices == extract_prices(env.page, "ac")
             dc_prices == extract_prices(env.page, "dc")
         IN IF ac_prices # <<>> \/ dc_prices # <<>>
            THEN [result |-> [ac |-> ac_prices, dc |-> dc_prices,
                              status |-> "selenium_success"],
                  tiers |-> <<"acquire", "rendered", "quit">>,
                  failed |-> FALSE,
                  live |-> [ac |-> ac_prices, dc |-> dc_prices]]
            ELSE [result |-> FallbackOr(url, table, "selenium_no_prices"),
                  tiers |-> <<"acquire", "rendered", "fallback", "quit">>,
                  failed |-> FALSE,
                  live |-> [ac |-> ac_prices, dc |-> dc_prices]]

\* scrape_url escalating to the rendered fetch when the static page has no price
scrape_url_escalate(url, table, sel, env) ==
    IF url \in DOMAIN force_prices
    THEN [result |-> EntryCopy(force_prices[url]), tiers |-> <<"force">>,
          failed |-> FALSE, live |-> NoLive]
    ELSE IF url \in js_sites
    THEN scrape_with_selenium(url, table, sel, env)
    ELSE IF env.fetch = "error"
    THEN [result |-> FallbackOr(url, table, "error"),
          tiers |-> <<"static", "fallback">>, failed |-> TRUE, live |-> NoLive]
    ELSE LET ac_prices == extract_prices(env.page, "ac")
             dc_prices == extract_prices(env.page, "dc")
             rendered == scrape_with_selenium(url, table, sel, env)
         IN IF ac_prices # <<>> \/ dc_prices # <<>>
            THEN [result |-> [ac |-> ac_prices, dc |-> dc_prices,
                              status |-> "success"],
                  tiers |-> <<"static">>, failed |-> FALSE,
                  live |-> [ac |-> ac_prices, dc |-> dc_prices]]
            ELSE [rendered EXCEPT !.tiers = <<"static">> \o @]

\* scrape_url returning the fallback entry of a URL whatever the page holds
scrape_url_prefer_fallback(url, table, sel, env) ==
    IF url \in js_sites
    THEN scrape_with_selenium(url, table, sel, env)
    ELSE IF env.fetch = "error"
    THEN [result |-> FallbackOr(url, table, "error"),
          tiers |-> <<"static", "fallback">>, failed |-> TRUE, live |-> NoLive]
    ELSE LET ac_prices == extract_prices(env.page, "ac")
             dc_prices == extract_prices(env.page, "dc")
         IN IF (ac_prices # <<>> \/ dc_prices # <<>>) /\ url \notin DOMAIN table
            THEN [result |-> [ac |-> ac_prices, dc |-> dc_prices,
                              status |-> "success"],
                  tiers |-> <<"static">>, failed |-> FALSE,
                  live |-> [ac |-> ac_prices, dc |-> dc_prices]]
            ELSE [result |-> FallbackOr(url, table, "no_prices"),
                  tiers |-> <<"static", "fallback">>,
                  failed |-> FALSE,
                  live |-> [ac |-> ac_prices, dc |-> dc_prices]]

\* scrape_url
scrape_url(url, table, sel, env) ==
    IF url \in DOMAIN force_prices
    THEN [result |-> EntryCopy(force_prices[url]), tiers |-> <<"force">>,
          failed |-> FALSE, live |-> NoLive]
    ELSE IF url \in js_sites
    THEN scrape_with_selenium(url, table, sel, env)
    ELSE IF env.fetch = "error"
    THEN [result |-> FallbackOr(url, table, "error"),
          tiers |-> <<"static", "fallback">>, failed |-> TRUE, live |-> NoLive]
    ELSE LET ac_prices == extract_prices(env.page, "ac")
             dc_prices == extract_prices(env.page, "dc")
         IN IF ac_prices # <<>> \/ dc_prices # <<>>
            THEN [result |-> [ac |-> ac_prices, dc |-> dc_prices,
                              status |-> "success"],
                  tiers |-> <<"static">>, failed |-> FALSE,
                  live |-> [ac |-> ac_prices, dc |-> dc_prices]]
            ELSE [result |-> FallbackOr(url, table, "no_prices"),
                  tiers |-> <<"static", "fallback">>,
                  failed |-> FALSE,
                  live |-> [ac |-> ac_prices, dc |-> dc_prices]]

-----------------------------------------------------------------------------
(* DataConverter *)

\* StandardEntry taking the maximum of the AC prices too
StandardEntry_MaxAc(url, logo_url, ac_prices, dc_prices) ==
    [firma |-> company_name(url), ulke |-> "TR", webSitesi |-> url,
     acCurrency |-> "TRY", dcCurrency |-> "TRY", logoUrl |-> logo_url,
     acFiyat |-> IF ac_prices # <<>> THEN PyMax(ac_prices) ELSE None,
     dcFiyat |-> IF dc_prices # <<>> THEN PyMax(dc_prices) ELSE None]

\* the entry literal of _create_standard_entry and of _process_and_save_results
StandardEntry(url, logo_url, ac_prices, dc_prices) ==
    [firma |-> company_name(url), ulke |-> "TR", webSitesi |-> url,
     acCurrency |-> "TRY", dcCurrency |-> "TRY", logoUrl |-> logo_url,
     acFiyat |-> IF ac_prices # <<>> THEN PyMin(ac_prices) ELSE None,
     dcFiyat |-> IF dc_prices # <<>> THEN PyMax(dc_prices) ELSE None]

\* DataConverter._create_standard_entry (url is never empty here)
create_standard_entry(url, prices) == StandardEntry(url, "None", prices.ac, prices.dc)

\* DataConverter.convert_to_standard over a dict url -> prices
convert_to_standard(raw) ==
    [i \in 1..Len(raw) |-> create_standard_entry(raw[i].key, raw[i].val)]

RECURSIVE DedupFirst(_, _, _, _)
\* the loop of DataConverter.deduplicate_by_domain over data[i..]
DedupFirst(data, i, seen, deduped) ==
    IF i > Len(data) THEN deduped
    ELSE LET domain == normalize_domain(data[i].webSitesi)
         IN IF ~DictHas(seen, domain)
            THEN DedupFirst(data, i + 1, DictSet(seen, domain, data[i]),
                            Append(deduped, data[i]))
            ELSE DedupFirst(data, i + 1, seen, deduped)

\* DataConverter.deduplicate_by_domain
deduplicate_by_domain(data) == DedupFirst(data, 1, <<>>, <<>>)

-----------------------------------------------------------------------------
(* ScraperRunner._process_and_save_results *)

\* entry.get('acFiyat') or entry.get('dcFiyat')
HasPrice(entry) == Truthy(entry.acFiyat) \/ Truthy(entry.dcFiyat)

RECURSIVE ExistingMapFrom(_, _, _)
\* {c['webSitesi']: c for c in existing}
ExistingMapFrom(file, i, map) ==
    IF i > Len(file) THEN map
    ELSE ExistingMapFrom(file, i + 1, DictSet(map, file[i].webSitesi, file[i]))

\* ExistingMap of a run that takes no entry from the file
ExistingMap_unread(file) == <<>>

ExistingMap(file) == ExistingMapFrom(file, 1, <<>>)

\* RunnerEntry leaving acFiyat and dcFiyat null
RunnerEntry_null(url, result, table) ==
    StandardEntry(url, logo_map(url), <<>>, <<>>)

\* lines 109-141: the entry built for a URL whose result has a price
RunnerEntry(url, result, table) ==
    LET forced == url \in DOMAIN force_prices /\ url \in DOMAIN table
        ac_prices == IF forced /\ result.ac = <<>> THEN table[url].ac ELSE result.ac
        dc_prices == IF forced /\ result.dc = <<>> THEN table[url].dc ELSE result.dc
    IN StandardEntry(url, logo_map(url), ac_prices, dc_prices)

\* ScrapedEntry without lines 105-106: a URL with no price is dropped
ScrapedEntry_Drop(url, result, existing_map, table) ==
    IF result.ac = <<>> /\ result.dc = <<>>
    THEN <<>>
    ELSE <<RunnerEntry(url, result, table)>>

\* lines 101-141: what one item of scrape_results appends to new_data
ScrapedEntry(url, result, existing_map, table) ==
    IF result.ac = <<>> /\ result.dc = <<>>
    THEN IF DictHas(existing_map, url)
         THEN <<DictGet(existing_map, url)>>
         ELSE <<>>
    ELSE <<RunnerEntry(url, result, table)>>

RECURSIVE ScrapedEntries(_, _, _, _)
\* lines 100-141: the loop over scrape_results.items(), from item i on
ScrapedEntries(results, i, existing_map, table) ==
    IF i > Len(results) THEN <<>>
    ELSE ScrapedEntry(results[i].key, results[i].val, existing_map, table)
             \o ScrapedEntries(results, i + 1, existing_map, table)

\* NotScraped without the second loop: nothing is copied forward
NotScraped_None(results, existing_map) == <<>>

\* lines 143-146: entries of the previous dataset whose URL was not scraped
NotScraped(results, existing_map) ==
    LET keep == SelectSeq(existing_map, LAMBDA kv : ~DictHas(results, kv.key))
    IN [i \in 1..Len(keep) |-> keep[i].val]

\* new_data as it stands before the deduplication
NewData(results, file, table) ==
    ScrapedEntries(results, 1, ExistingMap(file), table)
        \o NotScraped(results, ExistingMap(file))

\* DedupStep without the domain test: every entry is kept
DedupStep_KeepAll(entry, seen, final) ==
    [seen |-> DictSet(seen, normalize_domain(entry.webSitesi), entry),
     final |-> Append(final, entry)]

\* DedupStep replacing whenever the later entry has a price
DedupStep_LastWins(entry, seen, final) ==
    LET domain == normalize_domain(entry.webSitesi)
    IN IF ~DictHas(seen, domain)
       THEN [seen |-> DictSet(seen, domain, entry), final |-> Append(final, entry)]
       ELSE LET existing_entry == DictGet(seen, domain)
            IN IF HasPrice(entry)
               THEN [seen |-> DictSet(seen, domain, entry),
                     final |-> [final EXCEPT ![ListIndex(final, existing_entry)] = entry]]
               ELSE [seen |-> seen, final |-> final]

\* lines 159-168: what one entry does to (seen_domains, final_data)
DedupStep(entry, seen, final) ==
    LET domain == normalize_domain(entry.webSitesi)
    IN IF ~DictHas(seen, domain)
       THEN [seen |-> DictSet(seen, domain, entry), final |-> Append(final, entry)]
       ELSE LET existing_entry == DictGet(seen, domain)
            IN IF HasPrice(entry) /\ ~HasPrice(existing_entry)
               THEN [seen |-> DictSet(seen, domain, entry),
                     final |-> [final EXCEPT ![ListIndex(final, existing_entry)] = entry]]
               ELSE [seen |-> seen, final |-> final]

RECURSIVE DedupFrom(_, _, _, _)
\* lines 153-168: the loop over new_data[i..]
DedupFrom(data, i, seen, final) ==
    IF i > Len(data) THEN final
    ELSE LET step == DedupStep(data[i], seen, final)
         IN DedupFrom(data, i + 1, step.seen, step.final)

\* final_data
FinalData(data) == DedupFrom(data, 1, <<>>, <<>>)

-----------------------------------------------------------------------------
(* The dataset file present before the first pass: a canonical dataset, as  *)
(* DataConverter writes one from raw scraped data.                          *)

SeedPrices ==
    {[ac |-> <<>>, dc |-> <<>>],
     [ac |-> <<750>>, dc |-> <<>>],
     [ac |-> <<750>>, dc |-> <<750, 990>>],
     [ac |-> <<350>>, dc |-> <<>>],
     [ac |-> <<350>>, dc |-> <<990>>]}

DistinctKeys(d) == \A i, j \in 1..Len(d) : d[i].key = d[j].key => i = j

\* raw scraped data: a dict url -> prices of at most n items
RawInputs(n) ==
    {raw \in UNION {[1..k -> [key : URLS, val : SeedPrices]] : k \in 0..n} :
        DistinctKeys(raw)}

SeedDatasets ==
    {deduplicate_by_domain(convert_to_standard(raw)) : raw \in RawInputs(MaxSeed)}

\* the configurations: lists of distinct URLs
Batches ==
    {b \in UNION {[1..n -> URLS] : n \in 1..MaxBatch} :
        \A i, j \in 1..Len(b) : b[i] = b[j] => i = j}

NoSummary == [total |-> 0, success |-> 0, failed |-> 0, no_prices |-> 0]

-----------------------------------------------------------------------------
(* The run of scraper_runner.py *)

RunnerInit ==
    /\ call = <<>>
    /\ ret = <<>>
    /\ dataset \in SeedDatasets
    /\ urls = <<>>
    /\ selenium_available = TRUE
    /\ fallback_prices = manual_fallback
    /\ pc = "idle"
    /\ idx = 1
    /\ scrape_results = <<>>
    /\ log = <<>>
    /\ existing = <<>>
    /\ new_data = <<>>
    /\ summary = NoSummary
    /\ returned = <<>>

\* ScraperRunner.__init__ and the head of scrape_all: the configuration is
\* read, QuickScraper() builds its fallback table, the counters are reset
StartPass ==
    /\ pc = "idle"
    /\ \E batch \in Batches, sel \in BOOLEAN :
          /\ urls' = batch
          /\ selenium_available' = sel
    /\ fallback_prices' = QuickScraperInit(dataset)
    /\ pc' = "scraping"
    /\ idx' = 1
    /\ scrape_results' = <<>>
    /\ log' = <<>>
    /\ summary' = [NoSummary EXCEPT !.total = Len(urls')]
    /\ UNCHANGED <<call, ret, returned, dataset, existing, new_data>>

\* ScrapeNext letting a failed fetch end the loop without a result
ScrapeNext_Abort ==
    /\ pc = "scraping"
    /\ idx <= Len(urls)
    /\ \E env \in Envs :
          LET url == urls[idx]
              out == scrape_url(url, fallback_prices, selenium_available, env)
          IN IF out.failed
             THEN /\ idx' = Len(urls) + 1
                  /\ UNCHANGED <<scrape_results, log>>
             ELSE /\ idx' = idx + 1
                  /\ scrape_results' = DictSet(scrape_results, url, out.result)
                  /\ log' = Append(log, [url |-> url, tiers |-> out.tiers,
                                         failed |-> out.failed,
                                    live |-> out.live])
    /\ UNCHANGED <<call, ret, returned, dataset, urls, selenium_available, fallback_prices, pc,
                   existing, new_data, summary>>

\* one iteration of QuickScraper.scrape_all: results[url] = scrape_url(url)
ScrapeNext ==
    /\ pc = "scraping"
    /\ idx <= Len(urls)
    /\ \E env \in Envs :
          LET url == urls[idx]
              out == scrape_url(url, fallback_prices, selenium_available, env)
          IN /\ scrape_results' = DictSet(scrape_results, url, out.result)
             /\ log' = Append(log, [url |-> url, tiers |-> out.tiers,
                                    failed |-> out.failed,
                                    live |-> out.live])
    /\ idx' = idx + 1
    /\ UNCHANGED <<call, ret, returned, dataset, urls, selenium_available, fallback_prices, pc,
                   existing, new_data, summary>>

\* lines 56-73 of ScraperRunner.scrape_all: the counters
Summarize(results, total) ==
    LET priced == {i \in 1..Len(results) :
                      results[i].val.ac # <<>> \/ results[i].val.dc # <<>>}
    IN [total |-> total, success |-> Cardinality(priced), failed |-> 0,
        no_prices |-> Len(results) - Cardinality(priced)]

\* the rest of ScraperRunner.scrape_all once QuickScraper.scrape_all returned:
\* the counters, then _process_and_save_results (which builds a QuickScraper
\* of its own from the same dataset file)
ProcessAndSave ==
    /\ pc = "scraping"
    /\ idx > Len(urls)
    /\ summary' = Summarize(scrape_results, Len(urls))
    /\ existing' = dataset
    /\ new_data' = NewData(scrape_results, dataset, QuickScraperInit(dataset))
    /\ dataset' = FinalData(new_data')
    /\ pc' = "done"
    /\ UNCHANGED <<call, ret, returned, urls, selenium_available, fallback_prices, idx,
                   scrape_results, log>>


\* scraper_runner.py is run again: a new ScraperRunner, the dataset file
\* as the last run saved it
NextRun ==
    /\ pc = "done"
    /\ pc' = "idle"
    /\ urls' = <<>>
    /\ selenium_available' = TRUE
    /\ fallback_prices' = manual_fallback
    /\ idx' = 1
    /\ scrape_results' = <<>>
    /\ log' = <<>>
    /\ existing' = <<>>
    /\ new_data' = <<>>
    /\ summary' = NoSummary
    /\ UNCHANGED <<call, ret, returned, dataset>>

\* runs of scraper_runner.py one after the other
PassesSpec ==
    RunnerInit /\ [][StartPass \/ ScrapeNext \/ ProcessAndSave \/ NextRun]_vars

-----------------------------------------------------------------------------
(* DataConverter on its own: raw scraped data (scrape_results) is converted *)
(* to standard entries (new_data) and deduplicated by domain (dataset).     *)

ConverterInit ==
    /\ call = <<>>
    /\ ret = <<>>
    /\ scrape_results \in RawInputs(MaxRaw)
    /\ pc = "raw"
    /\ new_data = <<>>
    /\ dataset = <<>>
    /\ urls = <<>>
    /\ selenium_available = TRUE
    /\ fallback_prices = manual_fallback
    /\ idx = 1
    /\ log = <<>>
    /\ existing = <<>>
    /\ summary = NoSummary
    /\ returned = <<>>

Convert ==
    /\ pc = "raw"
    /\ new_data' = convert_to_standard(scrape_results)
    /\ pc' = "converted"
    /\ UNCHANGED <<call, ret, returned, dataset, urls, selenium_available, fallback_prices, idx,
                   scrape_results, log, existing, summary>>

Deduplicate ==
    /\ pc = "converted"
    /\ dataset' = deduplicate_by_domain(new_data)
    /\ pc' = "deduped"
    /\ UNCHANGED <<call, ret, returned, urls, selenium_available, fallback_prices, idx,
                   scrape_results, log, existing, new_data, summary>>

-----------------------------------------------------------------------------
(* A caller of scrape_url keeping the returned fallback value.  The value  *)
(* is a Python dict: each key holds a reference to a list, either the list *)
(* object of the fallback table entry (shared) or a list of the caller's.  *)

\* self.fallback_prices[url].copy(): a new dict, the same two list objects
DictCopy(url) ==
    [url |-> url,
     ac |-> [shared |-> TRUE, items |-> <<>>],
     dc |-> [shared |-> TRUE, items |-> <<>>]]

\* the list a key of the returned dict refers to
Deref(r, key) == IF r[key].shared THEN fallback_prices[r.url][key] ELSE r[key].items

\* the values a caller writes (1.00)
CallerValues == {100}

CopyInit ==
    /\ call = <<>>
    /\ ret = <<>>
    /\ dataset \in SeedDatasets
    /\ fallback_prices = QuickScraperInit(dataset)
    /\ pc = "caller"
    /\ returned = <<>>
    /\ urls = <<>>
    /\ selenium_available = TRUE
    /\ idx = 1
    /\ scrape_results = <<>>
    /\ log = <<>>
    /\ existing = <<>>
    /\ new_data = <<>>
    /\ summary = NoSummary

\* scrape_url(url) taking one of its "return self.fallback_prices[url].copy()"
ReturnFallback ==
    /\ pc = "caller"
    /\ returned = <<>>
    /\ \E url \in DOMAIN fallback_prices, sel \in BOOLEAN, env \in Envs :
          /\ scrape_url(url, fallback_prices, sel, env).result
                 = EntryCopy(fallback_prices[url])
          /\ returned' = <<DictCopy(url)>>
    /\ UNCHANGED <<call, ret, dataset, urls, selenium_available, fallback_prices, pc, idx,
                   scrape_results, log, existing, new_data, summary>>

\* the caller runs result[key].append(v)
CallerAppend ==
    /\ pc = "caller"
    /\ returned # <<>>
    /\ \E key \in {"ac", "dc"}, v \in CallerValues :
          LET r == returned[1]
          IN /\ Len(Deref(r, key)) < MaxList
             /\ IF r[key].shared
                THEN /\ fallback_prices' =
                            [fallback_prices EXCEPT ![r.url][key] = Append(@, v)]
                     /\ UNCHANGED returned
                ELSE /\ returned' = <<[r EXCEPT ![key].items = Append(@, v)]>>
                     /\ UNCHANGED fallback_prices
    /\ UNCHANGED <<call, ret, dataset, urls, selenium_available, pc, idx,
                   scrape_results, log, existing, new_data, summary>>

\* the caller runs result[key] = [v]
CallerAssign ==
    /\ pc = "caller"
    /\ returned # <<>>
    /\ \E key \in {"ac", "dc"}, v \in CallerValues :
          returned' = <<[returned[1] EXCEPT ![key] = [shared |-> FALSE, items |-> <<v>>]]>>
    /\ UNCHANGED <<call, ret, dataset, urls, selenium_available, fallback_prices, pc, idx,
                   scrape_results, log, existing, new_data, summary>>

CopyNext == ReturnFallback \/ CallerAppend \/ CallerAssign

CopySpec == CopyInit /\ [][CopyNext]_vars

-----------------------------------------------------------------------------
(* The scrapers package: ScraperFactory picks a scraper class for a URL and *)
(* the scraper fetches the page.  A host name is the concatenation of its   *)
(* tokens, so <<"meg", "alfa">> is the host megalfa.                        *)

\* https://megalfa/fiyatlar: another site, whose host name ends in "alfa"
UrlC == [netloc |-> <<"meg", "alfa">>, path |-> "/fiyatlar"]

FactoryURLS == URLS \cup {UrlC}

\* ScraperFactory.SELENIUM_DOMAINS
SELENIUM_DOMAINS == {<<"alfa">>}

\* ScraperFactory.SCRAPER_MAP: empty
SCRAPER_MAP == {}

\* "sub in str": sub occurs in str as a run of consecutive tokens
StrContains(str, sub) ==
    \E k \in 0..(Len(str) - Len(sub)) : SubSeq(str, k + 1, k + Len(sub)) = sub

\* ScraperFactory.create_scraper: the class of the scraper it returns
create_scraper(url) ==
    LET domain == ReplaceWww(url.netloc)
    IN IF \E js_domain \in SELENIUM_DOMAINS : StrContains(domain, js_domain)
       THEN "SeleniumScraper"
       ELSE IF \E pattern \in SCRAPER_MAP : StrContains(domain, pattern)
       THEN "SpecificScraper"
       ELSE "GenericScraper"

\* BaseScraper.fetch_page: one static fetch
fetch_page(env) ==
    [tiers |-> <<"static">>, failed |-> env.fetch = "error"]

\* SeleniumScraper.fetch_page_selenium: setup_driver, driver.get, and the
\* finally clause quitting the driver
fetch_page_selenium(env) ==
    IF env.driver = "fail"
    THEN [tiers |-> <<>>, failed |-> TRUE]
    ELSE [tiers |-> <<"acquire", "rendered", "quit">>,
          failed |-> env.fetch = "error"]

\* the outcomes of the driver start and of the fetch
FetchEnvs == [driver : {"ok", "fail"}, fetch : {"ok", "error"}]

FactoryBatches ==
    {b \in UNION {[1..n -> FactoryURLS] : n \in 1..MaxBatch} :
        \A i, j \in 1..Len(b) : b[i] = b[j] => i = j}

FactoryInit ==
    /\ call = <<>>
    /\ ret = <<>>
    /\ urls \in FactoryBatches
    /\ pc = "factory"
    /\ idx = 1
    /\ log = <<>>
    /\ dataset = <<>>
    /\ selenium_available = TRUE
    /\ fallback_prices = manual_fallback
    /\ scrape_results = <<>>
    /\ existing = <<>>
    /\ new_data = <<>>
    /\ summary = NoSummary
    /\ returned = <<>>

\* scraper = ScraperFactory.create_scraper(url), then the fetch that opens
\* scraper.scrape()
FactoryFetch ==
    /\ pc = "factory"
    /\ idx <= Len(urls)
    /\ \E env \in FetchEnvs :
          LET url == urls[idx]
              out == IF create_scraper(url) = "SeleniumScraper"
                     THEN fetch_page_selenium(env)
                     ELSE fetch_page(env)
          IN log' = Append(log, [url |-> url, tiers |-> out.tiers,
                                 failed |-> out.failed, live |-> NoLive])
    /\ idx' = idx + 1
    /\ UNCHANGED <<call, ret, returned, dataset, urls, selenium_available, fallback_prices, pc,
                   scrape_results, existing, new_data, summary>>

-----------------------------------------------------------------------------
(* QuickScraper() on its own: the constructor hydrates the fallback table   *)
(* from whatever dataset file it finds, also one another tool has written.  *)

\* the prices of a raw item behind such a dataset: none, in range, at the
\* ends of the range, and outside it
HydratePrices ==
    [ac : {<<>>, <<MinPrice - 1>>, <<MinPrice>>, <<750>>, <<MaxPrice>>, <<MaxPrice + 1>>},
     dc : {<<>>, <<990>>, <<MaxPrice + 1>>}]

HydrateDatasets ==
    {deduplicate_by_domain(convert_to_standard(raw)) :
        raw \in {r \in UNION {[1..k -> [key : URLS, val : HydratePrices]] :
                                  k \in 0..MaxHydrate} : DistinctKeys(r)}}

HydrateInit ==
    /\ call = <<>>
    /\ ret = <<>>
    /\ dataset \in HydrateDatasets
    /\ fallback_prices = manual_fallback
    /\ pc = "construct"
    /\ returned = <<>>
    /\ urls = <<>>
    /\ selenium_available = TRUE
    /\ idx = 1
    /\ scrape_results = <<>>
    /\ log = <<>>
    /\ existing = <<>>
    /\ new_data = <<>>
    /\ summary = NoSummary

\* QuickScraper.__init__: self._hydrate_fallbacks_from_latest_data()
Hydrate ==
    /\ pc = "construct"
    /\ fallback_prices' = QuickScraperInit(dataset)
    /\ pc' = "hydrated"
    /\ UNCHANGED <<call, ret, returned, dataset, urls, selenium_available, idx,
                   scrape_results, log, existing, new_data, summary>>

HydrateSpec == HydrateInit /\ [][Hydrate]_vars

-----------------------------------------------------------------------------
(* Texts.  A text is a sequence of characters; a character is a string of  *)
(* length one, except for the two letters outside ASCII that the texts use. *)

\* the characters of an ASCII string
Chars(str) == [i \in 1..Len(str) |-> SubSeq(str, i, i)]

Scedilla == "s-cedilla"      \* U+015F
Lira == "lira-sign"          \* U+20BA

Digits == SeqToSet(Chars("0123456789"))

UpperCase == Chars("ABCDEFGHIJKLMNOPQRSTUVWXYZ")

LowerCase == Chars("abcdefghijklmnopqrstuvwxyz")

AsciiLetters == SeqToSet(UpperCase) \cup SeqToSet(LowerCase)

\* c.lower()
LowerChar(c) ==
    IF \E i \in 1..26 : UpperCase[i] = c
    THEN LowerCase[CHOOSE i \in 1..26 : UpperCase[i] = c]
    ELSE c

\* text.lower()
TextLower(t) == [i \in 1..Len(t) |-> LowerChar(t[i])]

\* the character classes of the patterns
InClass(cls, c) ==
    CASE cls = "digit" -> c \in Digits                                   \* \d
      [] cls = "space" -> c = " "                                        \* \s
      [] cls = "word" -> c \in Digits \cup AsciiLetters \cup {"_", Scedilla}   \* \w
      [] cls = "ident" -> c \in Digits \cup AsciiLetters \cup {"-", "_", ":"}  \* [a-z0-9\-_:]
      [] cls = "comb" -> c \in {">", ",", "+", "~"}                       \* [>,+~]
      [] cls = "sep" -> c \in {".", ","}                                  \* [.,]
      [] cls = "datesep" -> c \in {".", "/", "-"}                         \* [\./-]
      [] cls = "d03" -> c \in {"0", "1", "2", "3"}                          \* [0-3]
      [] cls = "d12" -> c \in {"1", "2"}                                    \* [12]
      [] cls = "compare" -> c \in {"<", ">", "="}                         \* [<>=]
      [] cls = "dot" -> c \in {".", "#"}                                  \* [.#]

\* the length of the run of characters of class cls that starts at t[i]
RECURSIVE RunLength(_, _, _)
RunLength(cls, t, i) ==
    IF i <= Len(t) /\ InClass(cls, t[i]) THEN 1 + RunLength(cls, t, i + 1) ELSE 0

\* does the literal lit occur at t[i], letter case ignored
LitAt(lit, t, i) ==
    /\ i + Len(lit) - 1 <= Len(t)
    /\ \A j \in 1..Len(lit) : LowerChar(t[i + j - 1]) = LowerChar(lit[j])

\* \b at position i (between t[i-1] and t[i])
WordBoundary(t, i) ==
    (i > 1 /\ InClass("word", t[i - 1])) # (i <= Len(t) /\ InClass("word", t[i]))

Smaller(a, b) == IF a <= b THEN a ELSE b

Larger(a, b) == IF a >= b THEN a ELSE b

-----------------------------------------------------------------------------
(* Regular expressions, matched as re does with re.IGNORECASE: a pattern is *)
(* a sequence of items, an item is tried in its order of preference and     *)
(* the matcher backtracks.                                                  *)

\* cls{min,max}, greedy
Rep(cls, min, max) == [kind |-> "rep", cls |-> cls, min |-> min, max |-> max]

\* (?:a|b|...) over literals, in the order written
Alt(lits) == [kind |-> "alt", lits |-> lits, opt |-> FALSE]

\* (?:a|b|...)?
OptAlt(lits) == [kind |-> "alt", lits |-> lits, opt |-> TRUE]

Lit(str) == Alt(<<Chars(str)>>)

Bound == [kind |-> "wb"]

Many == 1000

\* the positions at which the rest of a pattern may go on after item has
\* matched at t[i], most preferred first
NextPositions(item, t, i) ==
    CASE item.kind = "rep" ->
           LET n == Smaller(RunLength(item.cls, t, i), item.max)
           IN IF n < item.min THEN <<>>
              ELSE [k \in 1..(n - item.min + 1) |-> i + n - k + 1]
      [] item.kind = "alt" ->
           LET hits == SelectSeq(item.lits, LAMBDA lit : LitAt(lit, t, i))
           IN [k \in 1..Len(hits) |-> i + Len(hits[k])]
                 \o (IF item.opt THEN <<i>> ELSE <<>>)
      [] item.kind = "wb" -> IF WordBoundary(t, i) THEN <<i>> ELSE <<>>

RECURSIVE MatchFrom(_, _, _, _), FirstMatch(_, _, _, _, _, _)
\* the match of items k.. of pattern rx at t[i]: the positions at which the
\* items start, then the end of the match; <<>> when there is none
MatchFrom(rx, k, t, i) ==
    IF k > Len(rx) THEN <<i>>
    ELSE FirstMatch(rx, k, t, i, NextPositions(rx[k], t, i), 1)

\* the match that goes on from the first of the positions next[c..] from
\* which the rest of rx matches
FirstMatch(rx, k, t, i, next, c) ==
    IF c > Len(next) THEN <<>>
    ELSE LET rest == MatchFrom(rx, k + 1, t, next[c])
         IN IF rest # <<>> THEN <<i>> \o rest
            ELSE FirstMatch(rx, k, t, i, next, c + 1)

\* a match object: its span and the span of group 1, as 0-based offsets
\* (start inclusive, end exclusive); group 1 is made of items g1..g2
MatchObject(m, g1, g2) ==
    [start |-> m[1] - 1, end |-> m[Len(m)] - 1,
     gstart |-> m[g1] - 1, gend |-> m[g2 + 1] - 1]

RECURSIVE FindIterFrom(_, _, _, _, _)
FindIterFrom(rx, g1, g2, t, i) ==
    IF i > Len(t) + 1 THEN <<>>
    ELSE LET m == MatchFrom(rx, 1, t, i)
         IN IF m = <<>> THEN FindIterFrom(rx, g1, g2, t, i + 1)
            ELSE <<MatchObject(m, g1, g2)>>
                    \o FindIterFrom(rx, g1, g2, t,
                                    IF m[Len(m)] > i THEN m[Len(m)] ELSE i + 1)

\* re.finditer(rx, t): the matches, left to right, not overlapping
FindIter(rx, g1, g2, t) == FindIterFrom(rx, g1, g2, t, 1)

\* re.search(rx, t): the first match, as a sequence of at most one match
Search(rx, t) ==
    LET starts == {i \in 1..(Len(t) + 1) : MatchFrom(rx, 1, t, i) # <<>>}
    IN IF starts = {} THEN <<>>
       ELSE <<MatchObject(MatchFrom(rx, 1, t,
                              CHOOSE i \in starts : \A j \in starts : i <= j),
                          1, Len(rx))>>

\* text[a:b] for 0-based offsets 0 <= a, with b cut at the end of the text
Slice(t, a, b) == SubSeq(t, a + 1, Smaller(b, Len(t)))

\* "sub in t"
TextContains(t, sub) ==
    \E k \in 0..(Len(t) - Len(sub)) : SubSeq(t, k + 1, k + Len(sub)) = sub

RECURSIVE DigitsValue(_)
\* int(digits)
DigitsValue(ds) ==
    IF ds = <<>> THEN 0
    ELSE 10 * DigitsValue(SubSeq(ds, 1, Len(ds) - 1)) 
            + (CHOOSE n \in 0..9 : SubSeq("0123456789", n + 1, n + 1) = ds[Len(ds)])

\* float(price_str) in hundredths, for price_str of the form \d+ or
\* \d+[.,]\d{1,2} (the comma replaced by a dot)
ParsePrice(price_str) ==
    LET n == RunLength("digit", price_str, 1)
        frac == SubSeq(price_str, n + 2, Len(price_str))
    IN 100 * DigitsValue(SubSeq(price_str, 1, n))
          + (IF Len(frac) = 1 THEN 10 * DigitsValue(frac) ELSE DigitsValue(frac))

-----------------------------------------------------------------------------
(* QuickScraper._extract_prices on the text of a page *)

Spaces == Rep("space", 0, Many)           \* \s*

Number == Rep("digit", 1, Many)           \* \d+

Separator == Rep("sep", 1, 1)             \* [.,]

Fraction == Rep("digit", 1, 2)            \* \d{1,2}

\* (?:Lira|TL)?\s*(\d+[.,]\d{1,2})\s*(?:Lira|TL)?
price_pattern ==
    <<OptAlt(<<<<Lira>>, Chars("TL")>>), Spaces, Number, Separator, Fraction, Spaces,
      OptAlt(<<<<Lira>>, Chars("TL")>>)>>

\* [\./-]\d{2,4}
date_tail == <<Rep("datesep", 1, 1), Rep("digit", 2, 4)>>

\* the matches of price_pattern in the page text: the value of group 1 and
\* whether the five characters after it start like the rest of a date
PageOf(page_text) ==
    LET matches == FindIter(price_pattern, 3, 5, page_text)
    IN [k \in 1..Len(matches) |->
          [val |-> ParsePrice(Slice(page_text, matches[k].gstart, matches[k].gend)),
           dated |-> MatchFrom(date_tail, 1,
                               Slice(page_text, matches[k].gend, matches[k].gend + 5),
                               1) # <<>>]]

-----------------------------------------------------------------------------
(* BaseScraper.clean_text and extract_price_from_text *)

\* the end of the match of
\* [.#][a-z0-9\-_:]*(\s*[>,+~]\s*[.#]?[a-z0-9\-_:]*)* that starts at t[i]
RECURSIVE SelectorTail(_, _)
SelectorTail(t, p) ==
    LET q == p + RunLength("space", t, p)
    IN IF q <= Len(t) /\ InClass("comb", t[q])
       THEN LET r == q + 1 + RunLength("space", t, q + 1)
                u == IF r <= Len(t) /\ InClass("dot", t[r]) THEN r + 1 ELSE r
            IN SelectorTail(t, u + RunLength("ident", t, u))
       ELSE p


RECURSIVE RemoveSelectors(_, _)
\* re.sub of the CSS selector pattern by '' from t[i] on
RemoveSelectors(t, i) ==
    IF i > Len(t) THEN <<>>
    ELSE IF InClass("dot", t[i]) THEN RemoveSelectors(t, SelectorTail(t, i + 1 + RunLength("ident", t, i + 1)))
    ELSE <<t[i]>> \o RemoveSelectors(t, i + 1)

RECURSIVE RemoveVars(_, _)
\* re.sub of var\s+\w+\s*=.*?; by '' from t[i] on (letter case kept)
RemoveVars(t, i) ==
    IF i > Len(t) THEN <<>>
    ELSE LET name == i + 3 + RunLength("space", t, i + 3)
             eq == name + RunLength("word", t, name)
                      + RunLength("space", t, name + RunLength("word", t, name))
             semis == {j \in (eq + 1)..Len(t) : t[j] = ";"}
         IN IF /\ i + 2 <= Len(t)
               /\ SubSeq(t, i, i + 2) = Chars("var")
               /\ name > i + 3
               /\ RunLength("word", t, name) > 0
               /\ eq <= Len(t)
               /\ t[eq] = "="
               /\ semis # {}
            THEN RemoveVars(t, 1 + CHOOSE j \in semis : \A k \in semis : j <= k)
            ELSE <<t[i]>> \o RemoveVars(t, i + 1)

\* clean_text.  The texts hold no '<', '{', '}', '_', quote or word of 50
\* characters, so of its substitutions only the JS variable one, the CSS
\* selector one and the whitespace one change anything
clean_text(text) ==
    LET t == RemoveSelectors(RemoveVars(text, 1), 1)
    IN \* ' '.join(text.split())
       SelectSeq([i \in 1..Len(t) |->
                     IF t[i] = " " /\ (i = 1 \/ t[i - 1] = " "
                                         \/ \A j \in i..Len(t) : t[j] = " ")
                     THEN "" ELSE t[i]],
                 LAMBDA c : c # "")

Unit == <<Chars("kWh"), Chars("kW"), Chars("kw")>>

Currency == <<Chars("TL"), <<Lira>>, Chars("TRY")>>      \* (?:TL|Lira|TRY)

LiraFirst == <<<<Lira>>, Chars("TL"), Chars("TRY")>>     \* (?:Lira|TL|TRY)

Slash == OptAlt(<<Chars("/")>>)            \* /?

\* \b0?[0-3]?[0-9]\.(0[1-9]|1[0-2])\.(20\d{2})\b
date_pattern ==
    <<Bound, OptAlt(<<Chars("0")>>), Rep("d03", 0, 1), Rep("digit", 1, 1),
      Lit("."),
      Alt(<<Chars("01"), Chars("02"), Chars("03"), Chars("04"), Chars("05"),
            Chars("06"), Chars("07"), Chars("08"), Chars("09"), Chars("10"),
            Chars("11"), Chars("12")>>),
      Lit("."), Lit("20"), Rep("digit", 2, 2), Bound>>

\* \b(\d+)\s*kW\b
power_pattern == <<Bound, Number, Spaces, Lit("kW"), Bound>>

\* the patterns of the list "patterns", each with the items of its group 1
patterns ==
    <<[rx |-> <<Number, Separator, Fraction, Spaces, Alt(Currency), Spaces,
                Slash, Spaces, Alt(Unit)>>, g1 |-> 1, g2 |-> 3],
      [rx |-> <<Alt(LiraFirst), Spaces, Number, Separator, Fraction, Spaces,
                Slash, Spaces, Alt(Unit)>>, g1 |-> 3, g2 |-> 5],
      [rx |-> <<Number, Spaces, Alt(Currency), Spaces, Slash, Spaces,
                Alt(Unit)>>, g1 |-> 1, g2 |-> 1],
      [rx |-> <<Alt(LiraFirst), Spaces, Number, Spaces, Slash, Spaces,
                Alt(Unit)>>, g1 |-> 3, g2 |-> 3],
      [rx |-> <<Number, Separator, Fraction, Spaces, Alt(Currency)>>,
       g1 |-> 1, g2 |-> 3],
      [rx |-> <<Alt(LiraFirst), Spaces, Number, Separator, Fraction>>,
       g1 |-> 3, g2 |-> 5],
      [rx |-> <<Number, Spaces, Alt(Currency)>>, g1 |-> 1, g2 |-> 1],
      [rx |-> <<Alt(LiraFirst), Spaces, Number>>, g1 |-> 3, g2 |-> 3],
      [rx |-> <<Number, Separator, Fraction, Spaces, Slash, Spaces, Alt(Unit)>>,
       g1 |-> 1, g2 |-> 3],
      [rx |-> <<Number, Spaces, Slash, Spaces, Alt(Unit)>>, g1 |-> 1, g2 |-> 1],
      [rx |-> <<Number, Separator, Fraction>>, g1 |-> 1, g2 |-> 3],
      [rx |-> <<Number>>, g1 |-> 1, g2 |-> 1]>>

\* the patterns of the list "currency_patterns"
currency_patterns ==
    <<[rx |-> <<Alt(<<Chars("AC"), Chars("DC")>>), Number, Spaces,
                Number, Separator, Fraction, Spaces, Alt(Currency)>>,
       g1 |-> 4, g2 |-> 6],
      [rx |-> <<Alt(Currency), Spaces, Slash, Spaces, OptAlt(Unit), Spaces,
                Number, Separator, Fraction>>, g1 |-> 7, g2 |-> 9],
      [rx |-> <<Number, Separator, Fraction, Spaces, Alt(Currency), Spaces,
                Slash, Spaces, OptAlt(Unit)>>, g1 |-> 1, g2 |-> 3],
      [rx |-> <<Alt(LiraFirst), Spaces, Number, Separator, Fraction, Spaces,
                Slash, Spaces, OptAlt(Unit)>>, g1 |-> 3, g2 |-> 5],
      [rx |-> <<Number, Spaces, Alt(Currency), Spaces, Slash, Spaces,
                OptAlt(Unit)>>, g1 |-> 1, g2 |-> 1],
      [rx |-> <<Alt(LiraFirst), Spaces, Number, Spaces, Slash, Spaces,
                OptAlt(Unit)>>, g1 |-> 3, g2 |-> 3]>>

\* the entries of date_keywords that can be written with the letters of the
\* texts (the others hold a c-cedilla, u-umlaut, dotless i or soft g)
date_keywords ==
    {Chars("tarih"), Chars("tarihi"), Chars("itibariyle"),
     Chars("ba") \o <<Scedilla>> \o Chars("layan"),
     Chars("tarihinden"), Chars("tarihine"), Chars("efektif"),
     Chars("effective"), Chars("since"), Chars("from"),
     Chars("ba") \o <<Scedilla>> \o Chars("lama")}

\* \b(jan|feb|...|ara)\b, without "mayis" and "agu" in their Turkish spelling
month_pattern ==
    <<Bound,
      Alt(<<Chars("jan"), Chars("feb"), Chars("mar"), Chars("apr"), Chars("may"),
            Chars("jun"), Chars("jul"), Chars("aug"), Chars("sep"), Chars("oct"),
            Chars("nov"), Chars("dec"), Chars("ocak"),
            <<Scedilla>> \o Chars("ub"), Chars("mar"), Chars("nisan"),
            Chars("haz"), Chars("tem"), Chars("eyl"), Chars("eki"),
            Chars("kas"), Chars("ara")>>),
      Bound>>

\* text.strip()
Strip(t) ==
    LET keep == {i \in 1..Len(t) : t[i] # " "}
    IN IF keep = {} THEN <<>>
       ELSE SubSeq(t, CHOOSE i \in keep : \A j \in keep : i <= j,
                      CHOOSE i \in keep : \A j \in keep : i >= j)

StartsWith(t, prefix) == Len(prefix) <= Len(t) /\ SubSeq(t, 1, Len(prefix)) = prefix

\* MatchPrice without the closing range test
MatchPrice_unbounded(text, m, power_values, min_price, max_price) ==
    <<ParsePrice(Slice(text, m.gstart, m.gend))>>

\* the tests one match goes through (the body of both "for match in matches"
\* loops): <<price>> when the match yields a price, <<>> when it is skipped
MatchPrice(text, m, power_values, min_price, max_price) ==
    LET context == Slice(text, Larger(0, m.start - 50), m.end + 50)
        context_lower == TextLower(context)
        price == ParsePrice(Slice(text, m.gstart, m.gend))
        context_after == TextLower(Slice(text, m.end, m.end + 30))
        immediate_after == Strip(TextLower(Slice(text, m.end, m.end + 5)))
        context_before == TextLower(Slice(text, Larger(0, m.start - 30), m.start))
    IN IF Search(date_pattern, context) # <<>> THEN <<>>
       ELSE IF /\ price < 200 /\ price >= 100
               /\ \/ \E word \in date_keywords : TextContains(context_lower, word)
                  \/ Search(month_pattern, context_lower) # <<>>
       THEN <<>>
       ELSE IF /\ price \in power_values
               /\ \/ ~\E currency \in {Chars("tl"), <<Lira>>, Chars("try"),
                                      Chars("kwh"), Chars("/kwh"), Chars("/kw")} :
                          TextContains(context_after, currency)
                  \/ /\ StartsWith(immediate_after, Chars("kw"))
                     /\ ~\E currency \in {Chars("tl"), <<Lira>>, Chars("try")} :
                            TextContains(context_before, currency)
       THEN <<>>
       ELSE IF min_price <= price /\ price <= max_price THEN <<price>>
       ELSE <<>>

RECURSIVE EachMatch(_, _, _, _, _, _)
\* "for match in matches": the prices the matches j.. yield, in order
EachMatch(matches, j, text, power_values, min_price, max_price) ==
    IF j > Len(matches) THEN <<>>
    ELSE MatchPrice(text, matches[j], power_values, min_price, max_price)
            \o EachMatch(matches, j + 1, text, power_values, min_price, max_price)

RECURSIVE CollectPrices(_, _, _, _, _, _)
\* the prices the patterns list[k..] collect, in the order the loops append them
CollectPrices(list, k, text, power_values, min_price, max_price) ==
    IF k > Len(list) THEN <<>>
    ELSE EachMatch(FindIter(list[k].rx, list[k].g1, list[k].g2, text), 1, text,
                   power_values, min_price, max_price)
            \o CollectPrices(list, k + 1, text, power_values, min_price, max_price)

\* extract_price_from_text from "power_pattern = ..." on, text being the
\* cleaned text: a price in hundredths, or None
FirstPrice(text, min_price, max_price) ==
    LET power_matches == FindIter(power_pattern, 2, 2, text)
        power_values == {100 * DigitsValue(Slice(text, power_matches[k].gstart,
                                                 power_matches[k].gend)) :
                            k \in 1..Len(power_matches)}
        currency_prices == CollectPrices(currency_patterns, 1, text,
                                         power_values, min_price, max_price)
        all_prices == CollectPrices(patterns, 1, text, power_values,
                                    min_price, max_price)
    IN IF currency_prices # <<>> THEN currency_prices[1]
       ELSE IF all_prices # <<>> THEN all_prices[1]
       ELSE None

\* extract_price_from_text: a price in hundredths, or None
extract_price_from_text(raw_text, min_price, max_price) ==
    IF raw_text = <<>> THEN None
    ELSE FirstPrice(clean_text(raw_text), min_price, max_price)

-----------------------------------------------------------------------------
(* BaseScraper.extract_charging_type *)

\* \d+\s*-\s*\d+\s*kW\s*AC and \d+\s*-\s*\d+\s*kW\s*DC
power_range(type) ==
    <<Number, Spaces, Lit("-"), Spaces, Number, Spaces, Lit("kW"), Spaces, Lit(type)>>

\* type\s*word
Keyword(type, word) == <<Lit(type), Spaces, Alt(<<word>>)>>

Sarj == <<Scedilla>> \o Chars("arj")

\* ac_patterns: each pattern as the set of its alternatives.  The
\* alternatives with an o-umlaut or a dotless i are left out: no text has
\* these letters
ac_patterns ==
    <<{power_range("AC")},
      {Keyword("ac", Chars("soket")), Keyword("ac", Chars("tip")),
       Keyword("ac", Chars("type")), Keyword("ac", Sarj)},
      {<<Bound, Lit("ac"), Spaces, Rep("compare", 1, 1)>>},
      {Keyword("ac", Chars("istasyon")), Keyword("ac", Chars("cihaz"))},
      {<<Bound, Lit("ac"), Bound>>},
      {<<Lit("alternating"), Spaces, Lit("current")>>}>>

\* dc_patterns
dc_patterns ==
    <<{<<Lit("DC"), Rep("space", 1, Many), Number, Spaces, Lit("kW")>>},
      {power_range("DC")},
      {<<Lit("dc"), Rep("d12", 1, 1), Spaces, Lit("soket")>>,
       <<Lit("dc"), Rep("d12", 1, 1), Spaces, Lit("tarifesi")>>},
      {Keyword("dc", Chars("soket")), Keyword("dc", Sarj),
       Keyword("dc", Chars("combo")), Keyword("dc", Chars("chademo"))},
      {<<Bound, Lit("dc"), Spaces, Rep("compare", 1, 1)>>},
      {Keyword("dc", Chars("istasyon")), Keyword("dc", Chars("cihaz"))},
      {<<Bound, Lit("dc"), Bound>>},
      {<<Lit("direct"), Spaces, Lit("current")>>}>>

\* AnyPattern of a loop that never finds a match
AnyPattern_never(list, context) == FALSE

\* "for pattern in list: if re.search(pattern, context)": does one match
AnyPattern(list, context) ==
    \E k \in 1..Len(list) : \E rx \in list[k] : Search(rx, context) # <<>>

\* extract_charging_type: "AC", "DC" or "None"
extract_charging_type(text, position) ==
    IF text = <<>> THEN "None"
    ELSE LET text_lower == TextLower(text)
             before_context == Slice(text_lower, Larger(0, position - 200), position)
             after_context == Slice(text_lower, position,
                                    Smaller(Len(text), position + 20))
             context == IF position # None
                        THEN before_context \o <<" ">> \o after_context
                        ELSE text_lower
             power_range_ac == Search(power_range("AC"), context)
             power_range_dc == Search(power_range("DC"), context)
             context_start == IF position > 200 THEN Larger(0, position - 200) ELSE 0
             price_pos_in_context == position - context_start
             abs(n) == IF n < 0 THEN -n ELSE n
             ac_dist == abs(power_range_ac[1].end - price_pos_in_context)
             dc_dist == abs(power_range_dc[1].end - price_pos_in_context)
         IN IF position # None /\ power_range_ac # <<>> /\ power_range_dc # <<>>
            THEN (IF ac_dist < dc_dist THEN "AC" ELSE "DC")
            ELSE IF position # None /\ power_range_ac # <<>> THEN "AC"
            ELSE IF position # None /\ power_range_dc # <<>> THEN "DC"
            ELSE IF AnyPattern(ac_patterns, context) THEN "AC"
            ELSE IF AnyPattern(dc_patterns, context) THEN "DC"
            ELSE "None"

-----------------------------------------------------------------------------
(* GenericScraper.scrape on a page whose body is one <p> element *)

DefaultMin == 50       \* min_price = 0.5
DefaultMax == 5000     \* max_price = 50.0

ScanMin == 50          \* 0.5 <= price_val
ScanMax == 5000        \* price_val <= 50

MaxPrices == 10        \* unique_prices[:10]

MinDescription == 10   \* len(clean_desc) < 10

RECURSIVE NumberTokens(_, _)
\* re.findall(r'(\d+(?:[.,]\d{1,2})?)', t) from t[i] on
NumberTokens(t, i) ==
    IF i > Len(t) THEN <<>>
    ELSE IF ~InClass("digit", t[i]) THEN NumberTokens(t, i + 1)
    ELSE LET e == i + RunLength("digit", t, i)
             f == IF e < Len(t) /\ InClass("sep", t[e])
                  THEN Smaller(RunLength("digit", t, e + 1), 2) ELSE 0
             stop == IF f > 0 THEN e + 1 + f ELSE e
         IN <<SubSeq(t, i, stop - 1)>> \o NumberTokens(t, stop)

\* the keywords of find_price_keywords, compiled with re.IGNORECASE (the
\* one with a u-umlaut is left out: no text has this letter)
price_keywords ==
    {Chars("fiyat"), Chars("tarife"), Chars("ucret"), Chars("price"),
     Chars("pricing"), Chars("kwh"), Chars("kw/h"), Chars("kilowatt"),
     Chars("kilovat")}

\* the price values scrape appends to prices for the element text, in order:
\* Method 3 (find_price_keywords) and Method 6; Methods 1, 2, 4 and 5 find
\* no table, list or classed element on this page.  found is what
\* "price = self.extract_price_from_text(text)" / "if price:" let through
AppendedPrices(text, lower, found) ==
    LET keyword_prices ==
            IF \E keyword \in price_keywords : TextContains(lower, keyword)
            THEN found ELSE <<>>
        typed == /\ TextContains(lower, Chars("ac")) \/ TextContains(lower, Chars("dc"))
                 /\ \E kw \in {Chars("kwh"), Chars("kw"), Chars("tl"), <<Lira>>,
                               Chars("fiyat")} : TextContains(lower, kw)
        price_matches == NumberTokens(text, 1)
        scanned == SelectSeq([k \in 1..Len(price_matches) |->
                                 ParsePrice(price_matches[k])],
                             LAMBDA price_val : ScanMin <= price_val /\ price_val <= ScanMax)
    IN keyword_prices \o (IF typed THEN found \o scanned ELSE <<>>)

\* the entries of prices that have a description, unique by (price,
\* description), sorted by price and cut to ten: their 'price' fields
UniquePrices(prices) ==
    SubSeq(SortedSeq(SeqToSet(prices)), 1,
           Smaller(Cardinality(SeqToSet(prices)), MaxPrices))

\* GenericScraper.scrape: the 'price' fields of the result's 'prices'
generic_scrape(text) ==
    IF Len(clean_text(text)) < MinDescription THEN <<>>
    ELSE UniquePrices(
             AppendedPrices(text, TextLower(text),
                            SelectSeq(<<extract_price_from_text(text, DefaultMin,
                                                                DefaultMax)>>,
                                      Truthy)))

-----------------------------------------------------------------------------
(* GenericScraper.scrape on a page whose body is a table of one row,       *)
(* <tr><td>Fiyat</td><td>text</td></tr>                                    *)

MaxDescription == 150  \* len(clean_desc) > 150

DescriptionKey == 50   \* desc[:50]

\* extract_power: group 1 of the first match of (\d+(?:[.,]\d+)?)\s*kW,
\* followed by "kW"; <<>> for None
extract_power(text) ==
    LET whole == Search(<<Number, Spaces, Lit("kW")>>, text)
        decimal == Search(<<Number, Separator, Number, Spaces, Lit("kW")>>, text)
        match == IF decimal # <<>> /\ (whole = <<>> \/ decimal[1].start < whole[1].start)
                 THEN decimal ELSE whole
    IN IF match = <<>> THEN <<>>
       ELSE SelectSeq(Slice(text, match[1].start, match[1].end - 2),
                      LAMBDA c : c # " ") \o Chars("kW")

\* format_price_data: the fields of an observation that scrape reads;
\* description <<>> for None
format_price_data(price, description, charging_type, power) ==
    LET clean_desc == clean_text(description)
        cut == IF Len(clean_desc) > MaxDescription
               THEN SubSeq(clean_desc, 1, MaxDescription) \o Chars("...")
               ELSE clean_desc
    IN [price |-> price, charging_type |-> charging_type, power |-> power,
        description |-> IF Len(cut) < MinDescription THEN <<>> ELSE cut]

\* "Remove duplicates and invalid entries", "Sort by price" (list.sort is
\* stable) and "Limit to reasonable number of prices"
UniqueObservations(prices) ==
    LET unique_key(k) ==
            <<prices[k].price,
              SubSeq(prices[k].description, 1,
                     Smaller(DescriptionKey, Len(prices[k].description)))>>
        kept == {k \in 1..Len(prices) :
                    /\ prices[k].description # <<>>
                    /\ \A j \in 1..(k - 1) : unique_key(j) # unique_key(k)}
        before(j, k) == \/ prices[j].price < prices[k].price
                        \/ prices[j].price = prices[k].price /\ j < k
        sorted == [i \in 1..Cardinality(kept) |->
                     prices[CHOOSE k \in kept :
                               Cardinality({j \in kept : before(j, k)}) = i - 1]]
    IN SubSeq(sorted, 1, Smaller(Len(sorted), MaxPrices))

\* PageResult with the status of a page with prices for every page
PageResult_success(unique_prices) ==
    [status |-> "success", prices |-> unique_prices]

\* the result scrape returns for the deduplicated, capped list
PageResult(unique_prices) ==
    [status |-> IF unique_prices # <<>> THEN "success" ELSE "no_prices_found",
     prices |-> unique_prices]

\* GenericScraper.scrape on the fetched page.  Method 1 reads the row text
\* ' '.join(cells), which holds the keyword 'fiyat'; Method 3
\* (find_price_keywords) reads the text of each cell that holds a keyword,
\* and finds no price in "Fiyat"; Methods 2, 4, 5 and 6 find no classed
\* element, list, div, span, p or heading on this page
scrape_table(text) ==
    LET texts == <<Chars("Fiyat ") \o text>>
                    \o (IF \E keyword \in price_keywords :
                              TextContains(TextLower(text), keyword)
                        THEN <<text>> ELSE <<>>)
    IN PageResult(UniqueObservations(
           \* "if price:" lets an observation into prices
           SelectSeq([k \in 1..Len(texts) |->
                         format_price_data(
                             extract_price_from_text(texts[k], DefaultMin, DefaultMax),
                             texts[k], extract_charging_type(texts[k], None),
                             extract_power(texts[k]))],
                     LAMBDA price_info : price_info.price # None)))

-----------------------------------------------------------------------------
(* The extraction helpers called on a text *)

\* the phrases texts are made of
ExtractPhrases ==
    <<Chars("18.10.2025"),
      Chars("8,50 TL/kWh"),
      Chars("11 - 22 kW AC ") \o Sarj,
      Chars("60,00 TL"),
      Chars("3,50 TL"),
      Chars("22 kW"),
      Chars("AC Tarifesi"),
      Chars("7,4 kW"),
      Chars("var. Fiyat = 8 TL;"),
      Chars("AC 22 kW 8,50 TL/kWh")>>

RECURSIVE TextsOf(_, _)
\* the texts of 1..n phrases, joined by a space
TextsOf(phrases, n) ==
    LET one == {phrases[i] : i \in 1..Len(phrases)}
    IN IF n <= 1 THEN one
       ELSE TextsOf(phrases, n - 1)
               \cup {a \o <<" ">> \o b : a \in TextsOf(phrases, n - 1), b \in one}

\* a text, and the range extract_price_from_text is called with: its
\* defaults, or the range of QuickScraper
ExtractInit ==
    /\ \E text \in TextsOf(ExtractPhrases, MaxPhrases),
          range \in {<<DefaultMin, DefaultMax>>, <<MinPrice, MaxPrice>>} :
          call = [text |-> text, min_price |-> range[1], max_price |-> range[2]]
    /\ ret = <<>>
    /\ pc = "text"
    /\ dataset = <<>>
    /\ urls = <<>>
    /\ selenium_available = TRUE
    /\ fallback_prices = manual_fallback
    /\ idx = 1
    /\ scrape_results = <<>>
    /\ log = <<>>
    /\ existing = <<>>
    /\ new_data = <<>>
    /\ summary = NoSummary
    /\ returned = <<>>

\* what every helper call leaves alone
Untouched ==
    UNCHANGED <<call, dataset, urls, selenium_available, fallback_prices, idx,
                scrape_results, log, existing, new_data, summary, returned>>

\* price = self.extract_price_from_text(text, min_price, max_price)
CallExtractPriceFromText ==
    /\ pc = "text"
    /\ ret' = [fn |-> "extract_price_from_text",
               value |-> extract_price_from_text(call.text, call.min_price,
                                                 call.max_price)]
    /\ pc' = "returned"
    /\ Untouched

\* ac_prices = self._extract_prices(soup, 'ac') for a page of this text
CallExtractPrices ==
    /\ pc = "text"
    /\ \E price_type \in {"ac", "dc"} :
          ret' = [fn |-> "_extract_prices",
                  value |-> extract_prices(PageOf(call.text), price_type)]
    /\ pc' = "returned"
    /\ Untouched

\* GenericScraper(url).scrape() for a page of this text
CallScrape ==
    /\ pc = "text"
    /\ ret' = [fn |-> "scrape", value |-> generic_scrape(call.text)]
    /\ pc' = "returned"
    /\ Untouched

\* text = self.clean_text(text)
CallCleanText ==
    /\ pc = "text"
    /\ ret' = [fn |-> "clean_text", value |-> clean_text(call.text)]
    /\ pc' = "returned"
    /\ Untouched

\* GenericScraper(url).scrape() for a page with a table row of this text,
\* fetched or not ("if not soup")
CallScrapeTable ==
    /\ pc = "text"
    /\ \E soup \in BOOLEAN :
          ret' = [fn |-> "scrape_table", soup |-> soup,
                  value |-> IF soup THEN scrape_table(call.text)
                            ELSE [status |-> "error", prices |-> <<>>]]
    /\ pc' = "returned"
    /\ Untouched

ExtractSpec ==
    ExtractInit /\ [][CallExtractPriceFromText \/ CallExtractPrices \/ CallScrape
                         \/ CallCleanText \/ CallScrapeTable]_vars

-----------------------------------------------------------------------------
(* A pass over one page that lists an AC tariff and a DC tariff *)

\* the tariffs a page may list (4,00 8,50 10,99 35,00)
TariffValues == {400, 850, 1099, 3500}

RECURSIVE NumberString(_)
\* the decimal digits of n
NumberString(n) ==
    IF n < 10 THEN <<Chars("0123456789")[n + 1]>>
    ELSE NumberString(n \div 10) \o <<Chars("0123456789")[(n % 10) + 1]>>

\* a price as the page writes it: 850 as 8,50
PriceString(p) ==
    NumberString(p \div 100) \o <<",">>
        \o <<Chars("0123456789")[((p % 100) \div 10) + 1], Chars("0123456789")[(p % 10) + 1]>>

\* the text of one table row: label | price TL/kWh
TariffRow(label, p) == Chars(label) \o <<" ">> \o PriceString(p) \o Chars(" TL/kWh")

\* soup.get_text(" ", strip=True) of a table of an AC row and a DC row
TariffPage(a, d, ac_first) ==
    IF ac_first
    THEN TariffRow("AC Tarifesi", a) \o <<" ">> \o TariffRow("DC Tarifesi", d)
    ELSE TariffRow("DC Tarifesi", d) \o <<" ">> \o TariffRow("AC Tarifesi", a)

TypingInit ==
    /\ \E a \in TariffValues, d \in TariffValues, ac_first \in BOOLEAN :
          call = [text |-> TariffPage(a, d, ac_first), ac_tariff |-> a,
                  dc_tariff |-> d]
    /\ ret = <<>>
    /\ pc = "page"
    /\ dataset = <<>>
    /\ \E url \in URLS : urls = <<url>>
    /\ selenium_available \in BOOLEAN
    /\ fallback_prices = manual_fallback
    /\ idx = 1
    /\ scrape_results = <<>>
    /\ log = <<>>
    /\ existing = <<>>
    /\ new_data = <<>>
    /\ summary = NoSummary
    /\ returned = <<>>

\* QuickScraper.scrape_all over the one URL, whose fetch returns the page
ScrapeTariffPage ==
    /\ pc = "page"
    /\ LET url == urls[idx]
           env == [driver |-> "ok", fetch |-> "ok", page |-> PageOf(call.text)]
           out == scrape_url(url, fallback_prices, selenium_available, env)
       IN /\ scrape_results' = DictSet(scrape_results, url, out.result)
          /\ log' = Append(log, [url |-> url, tiers |-> out.tiers,
                                 failed |-> out.failed, live |-> out.live])
    /\ idx' = idx + 1
    /\ pc' = "scraping"
    /\ UNCHANGED <<call, ret, returned, dataset, urls, selenium_available,
                   fallback_prices, existing, new_data, summary>>

TypingSpec == TypingInit /\ [][ScrapeTariffPage \/ ProcessAndSave]_vars

-----------------------------------------------------------------------------
(* The classifier called on a text and the offset of a price *)

\* the segments texts are made of: an AC power range, a DC power range and
\* a price
ClassifyPhrases ==
    <<Chars("11 - 22 kW AC"), Chars("60 - 180 kW DC"), Chars("8.50 TL/kWh")>>

\* the offsets at which a price of the text starts
PriceOffsets(text) ==
    {i \in 0..(Len(text) - 1) : LitAt(Chars("8.50"), text, i + 1)}

ClassifyInit ==
    /\ \E text \in TextsOf(ClassifyPhrases, MaxSegments) :
          \E price_position \in PriceOffsets(text) \cup {None} :
              call = [text |-> text, price_position |-> price_position]
    /\ ret = <<>>
    /\ pc = "text"
    /\ dataset = <<>>
    /\ urls = <<>>
    /\ selenium_available = TRUE
    /\ fallback_prices = manual_fallback
    /\ idx = 1
    /\ scrape_results = <<>>
    /\ log = <<>>
    /\ existing = <<>>
    /\ new_data = <<>>
    /\ summary = NoSummary
    /\ returned = <<>>

\* charging_type = self.extract_charging_type(text, price_position)
CallExtractChargingType ==
    /\ pc = "text"
    /\ ret' = [fn |-> "extract_charging_type",
               value |-> extract_charging_type(call.text, call.price_position)]
    /\ pc' = "returned"
    /\ Untouched

ClassifySpec == ClassifyInit /\ [][CallExtractChargingType]_vars

-----------------------------------------------------------------------------
(* A behaviour is a run of scraper_runner.py, a use of DataConverter, or a *)
(* series of scrapers made by ScraperFactory.                              *)

Init == RunnerInit \/ ConverterInit \/ FactoryInit

Next ==
    \/ StartPass \/ ScrapeNext \/ ProcessAndSave
    \/ Convert \/ Deduplicate
    \/ FactoryFetch

Spec == Init /\ [][Next]_vars

TypeOK ==
    /\ pc \in {"idle", "scraping", "done", "raw", "converted", "deduped", "caller",
              "construct", "hydrated", "factory", "text", "returned", "page"}
    /\ idx \in 1..(Len(urls) + 1)

-----------------------------------------------------------------------------
(* Properties of the reconciliation pass *)

Done == pc = "done"

Domains(data) == {normalize_domain(data[i].webSitesi) : i \in 1..Len(data)}

NoObservations(result) == result.ac = <<>> /\ result.dc = <<>>

\* the records of data whose webSitesi is url
RecordsFor(data, url) == {data[i] : i \in {j \in 1..Len(data) : data[j].webSitesi = url}}

\* the items of the batch result that yield no observation, have no fallback
\* entry and have a record in the previous dataset
Silent ==
    {i \in 1..Len(scrape_results) :
        /\ NoObservations(scrape_results[i].val)
        /\ scrape_results[i].key \notin DOMAIN fallback_prices
        /\ RecordsFor(existing, scrape_results[i].key) # {}}

\* another URL of the batch contributes a record of url's normalized domain
BatchCollision(url) ==
    \E e \in SeqToSet(new_data) :
        /\ e.webSitesi # url
        /\ DictHas(scrape_results, e.webSitesi)
        /\ normalize_domain(e.webSitesi) = normalize_domain(url)

\* C1 as stated: a URL of the batch with no observation and no fallback entry
\* keeps its previous record, every field unchanged, in the merged dataset.
C1_Continuity ==
    Done => \A i \in Silent :
               RecordsFor(existing, scrape_results[i].key) \subseteq SeqToSet(dataset)

\* C1 amended: the previous record is carried into the merged dataset unchanged
\* unless another URL of the batch contributes a record of the same normalized
\* domain; then the domain keeps one record, the previous one or that other one.
C1_ContinuityUnlessCollision ==
    Done => \A i \in Silent :
               LET url == scrape_results[i].key
               IN \/ RecordsFor(existing, url) \subseteq SeqToSet(dataset)
                  \/ /\ BatchCollision(url)
                     /\ normalize_domain(url) \in Domains(dataset)

\* a silent URL whose previous record is in the merged dataset
C1_Witness ==
    /\ Done
    /\ \E i \in Silent :
          /\ RecordsFor(existing, scrape_results[i].key) \subseteq SeqToSet(dataset)
          /\ Len(scrape_results) = MaxBatch

\* C2: after a reconciliation pass no two records of the dataset share a
\* normalized domain.
C2_OneRecordPerDomain ==
    Done => \A i, j \in 1..Len(dataset) :
               normalize_domain(dataset[i].webSitesi)
                   = normalize_domain(dataset[j].webSitesi) => i = j

\* a pass in which two candidate records collided on a domain
C2_Witness ==
    /\ Done
    /\ Cardinality(Domains(new_data)) < Len(new_data)
    /\ Len(dataset) >= 1

\* a record with at least one non-null price
Priced(entry) == entry.acFiyat # None \/ entry.dcFiyat # None

\* the records kept for a domain
Kept(domain) ==
    {dataset[i] : i \in {j \in 1..Len(dataset) :
                            normalize_domain(dataset[j].webSitesi) = domain}}

\* the candidates of a domain, by position in new_data
Candidates(domain) ==
    {i \in 1..Len(new_data) : normalize_domain(new_data[i].webSitesi) = domain}

Deduplicated == pc \in {"done", "deduped"}

\* C3: of two candidate records of one normalized domain of which exactly one
\* has a non-null price, the priced one is kept, whatever their order.
C3_PricedBeatsUnpriced ==
    Deduplicated =>
        \A i, j \in 1..Len(new_data) :
            LET domain == normalize_domain(new_data[i].webSitesi)
            IN (/\ j \in Candidates(domain)
                /\ Priced(new_data[i])
                /\ ~Priced(new_data[j]))
               => \A e \in Kept(domain) : Priced(e)

\* C4 as stated: of the priced candidates of one domain, the one produced last
\* is kept.
C4_LastWriteWins ==
    Done =>
        \A i, j \in 1..Len(new_data) :
            (/\ i < j
             /\ j \in Candidates(normalize_domain(new_data[i].webSitesi))
             /\ Priced(new_data[i])
             /\ Priced(new_data[j]))
            => new_data[i] \notin Kept(normalize_domain(new_data[i].webSitesi))

\* C4 amended: of the priced candidates of one domain, the one produced first
\* is kept; a later priced candidate never replaces an earlier priced one.
C4_FirstPricedWins ==
    Done =>
        \A i, j \in 1..Len(new_data) :
            (/\ i < j
             /\ j \in Candidates(normalize_domain(new_data[i].webSitesi))
             /\ Priced(new_data[i])
             /\ Priced(new_data[j]))
            => new_data[j] \notin Kept(normalize_domain(new_data[i].webSitesi))

\* two priced candidates of one domain went through the deduplication
C4_Witness ==
    /\ Done
    /\ \E i, j \in 1..Len(new_data) :
          /\ i < j
          /\ j \in Candidates(normalize_domain(new_data[i].webSitesi))
          /\ Priced(new_data[i])
          /\ Priced(new_data[j])
          /\ new_data[i] \in SeqToSet(dataset)

-----------------------------------------------------------------------------
(* Properties of the acquisition tiers *)

\* position of the first occurrence of a step in a list of steps, 0 if absent
StepAt(tiers, step) ==
    IF \E k \in 1..Len(tiers) : tiers[k] = step
    THEN CHOOSE k \in 1..Len(tiers) :
             tiers[k] = step /\ \A m \in 1..(k-1) : tiers[m] # step
    ELSE 0

\* the scraped URLs outside the override set whose static fetch succeeded and
\* whose page held no price
StaticEmpty ==
    {i \in 1..Len(log) :
        /\ log[i].url \notin js_sites
        /\ ~log[i].failed
        /\ StepAt(log[i].tiers, "static") = 1
        /\ scrape_results[i].val.status # "success"}

\* C5 as stated: after an empty static result a rendered fetch is attempted
\* before the fallback table is consulted or a no-price result is returned.
C5_EscalatesToRendered ==
    pc \in {"scraping", "done"} =>
        \A i \in StaticEmpty :
            /\ StepAt(log[i].tiers, "rendered") > 0
            /\ StepAt(log[i].tiers, "fallback") > 0
                   => StepAt(log[i].tiers, "rendered") < StepAt(log[i].tiers, "fallback")

\* C5 amended: after an empty static result no rendered fetch is attempted;
\* the fallback table is consulted next, and without an entry the no-price
\* result is returned.
C5_NoEscalation ==
    pc \in {"scraping", "done"} =>
        \A i \in StaticEmpty :
            /\ log[i].tiers = <<"static", "fallback">>
            /\ IF log[i].url \in DOMAIN fallback_prices
               THEN /\ scrape_results[i].val.ac = fallback_prices[log[i].url].ac
                    /\ scrape_results[i].val.dc = fallback_prices[log[i].url].dc
               ELSE scrape_results[i].val = EmptyResult("no_prices")

\* an empty static result answered from the table, another with no entry
C5_Witness ==
    /\ pc = "done"
    /\ \E i, j \in StaticEmpty :
          /\ log[i].url \in DOMAIN fallback_prices
          /\ log[j].url \notin DOMAIN fallback_prices

\* C6: whatever fails, scrape_all handles the configured URLs in order and
\* leaves one result per URL; a failed URL has its fallback entry, or the
\* empty result when the table has none.
C6_BatchSurvivesFailures ==
    pc \in {"scraping", "done"} =>
        /\ DictKeys(scrape_results) = SubSeq(urls, 1, idx - 1)
        /\ Len(log) = Len(scrape_results)
        /\ Done => idx = Len(urls) + 1
        /\ \A i \in 1..Len(log) :
              log[i].failed =>
                  IF log[i].url \in DOMAIN fallback_prices
                  THEN /\ scrape_results[i].val.ac = fallback_prices[log[i].url].ac
                       /\ scrape_results[i].val.dc = fallback_prices[log[i].url].dc
                  ELSE NoObservations(scrape_results[i].val)

\* a batch whose first URL failed and whose second URL was still scraped,
\* with one failure answered from the table and one without an entry
C6_Witness ==
    /\ Done
    /\ Len(urls) = MaxBatch
    /\ log[1].failed
    /\ \E i, j \in 1..Len(log) :
          /\ log[i].failed /\ log[i].url \in DOMAIN fallback_prices
          /\ log[j].failed /\ log[j].url \notin DOMAIN fallback_prices

-----------------------------------------------------------------------------
(* Properties of the records *)

\* C7: after a batch the dataset has a record for every configured URL and
\* for every domain of the previous dataset; a URL with no price, no fallback
\* entry and no previous record has a record with null prices.
C7_RecordPerKnownDomain ==
    Done =>
        /\ \A k \in 1..Len(urls) : normalize_domain(urls[k]) \in Domains(dataset)
        /\ Domains(existing) \subseteq Domains(dataset)

IsMinOrNull(v, prices) ==
    IF prices = <<>> THEN v = None
    ELSE v \in SeqToSet(prices) /\ \A x \in SeqToSet(prices) : v <= x

IsMaxOrNull(v, prices) ==
    IF prices = <<>> THEN v = None
    ELSE v \in SeqToSet(prices) /\ \A x \in SeqToSet(prices) : v >= x

\* C8: the record produced for a URL whose result has observations has the
\* minimum of the AC list as acFiyat and the maximum of the DC list as
\* dcFiyat, null for an empty list.
C8_MinAcMaxDc ==
    pc \in {"done", "converted", "deduped"} =>
        \A i \in 1..Len(scrape_results) :
            ~NoObservations(scrape_results[i].val) =>
                \E e \in RecordsFor(new_data, scrape_results[i].key) :
                    /\ IsMinOrNull(e.acFiyat, scrape_results[i].val.ac)
                    /\ IsMaxOrNull(e.dcFiyat, scrape_results[i].val.dc)

\* a pass with a result of two AC prices and a result with AC prices only
C8_Witness ==
    /\ Done
    /\ \E i, j \in 1..Len(scrape_results) :
          /\ Len(scrape_results[i].val.ac) >= 2
          /\ scrape_results[j].val.ac # <<>>
          /\ scrape_results[j].val.dc = <<>>
          /\ RecordsFor(new_data, scrape_results[j].key) # {}

\* the records of the previous dataset whose URL is not in the batch
Unscraped ==
    {i \in 1..Len(existing) : ~DictHas(scrape_results, existing[i].webSitesi)}

\* a record produced for a URL of the batch has this domain
BatchRecordOn(domain) ==
    \E e \in SeqToSet(new_data) :
        /\ DictHas(scrape_results, e.webSitesi)
        /\ normalize_domain(e.webSitesi) = domain

\* C9: a previous record whose URL is not in the batch leaves a record of its
\* domain in the merged dataset: itself, unchanged, when no record of the
\* batch has that domain.
C9_CopiedForward ==
    Done =>
        \A i \in Unscraped :
            LET domain == normalize_domain(existing[i].webSitesi)
            IN /\ domain \in Domains(dataset)
               /\ ~BatchRecordOn(domain) => existing[i] \in SeqToSet(dataset)

\* a previous record outside the batch copied into a dataset that also holds
\* a record of the batch
C9_Witness ==
    /\ Done
    /\ \E i \in Unscraped :
          /\ existing[i] \in SeqToSet(dataset)
          /\ Len(dataset) >= 2

-----------------------------------------------------------------------------
(* Properties of the fallback table *)

\* C10: whatever the caller does to a returned fallback value, appending to
\* its price lists included, the fallback table keeps the entries it had.
C10_TableUnchanged ==
    returned # <<>> => fallback_prices = QuickScraperInit(dataset)

-----------------------------------------------------------------------------
(* Properties of the rendered-fetch tier *)

\* the number of drivers held after the first k steps of one scrape_url call
Held(tiers, k) ==
    Cardinality({j \in 1..k : tiers[j] = "acquire"})
        - Cardinality({j \in 1..k : tiers[j] = "quit"})

\* every driver.get runs on a driver acquired in the same call, one driver at
\* a time, and the call returns with no driver held
ScopedDriver(tiers) ==
    /\ \A k \in 0..Len(tiers) : Held(tiers, k) \in {0, 1}
    /\ \A k \in 1..Len(tiers) : tiers[k] = "rendered" => Held(tiers, k - 1) = 1
    /\ Held(tiers, Len(tiers)) = 0

\* C11: on every exit path of the rendered-fetch tier the driver acquired for
\* the URL has been quit before the tier returns, each URL gets a driver of
\* its own, and no driver is held when the next tier (static fetch, fallback
\* lookup) or the next URL starts
C11_ScopedDriver ==
    \A i \in 1..Len(log) :
        /\ ScopedDriver(log[i].tiers)
        /\ \A k \in 1..Len(log[i].tiers) :
               log[i].tiers[k] \in {"static", "fallback"}
                   => Held(log[i].tiers, k - 1) = 0

\* C11 (amended): the driver is quit before the tier returns and before the
\* next URL starts, each URL gets a driver of its own, and no static fetch
\* runs while a driver is held; the fallback lookup of the rendered-fetch
\* tier itself may run before the quit
C11_ReleasedBeforeReturn ==
    \A i \in 1..Len(log) :
        /\ ScopedDriver(log[i].tiers)
        /\ \A k \in 1..Len(log[i].tiers) :
               log[i].tiers[k] = "static" => Held(log[i].tiers, k - 1) = 0

\* a finished pass of two URLs in which the rendered fetch of the first raised
C11_Witness ==
    /\ Done
    /\ Len(log) = 2
    /\ log[1].failed
    /\ log[1].tiers = <<"acquire", "rendered", "fallback", "quit">>

-----------------------------------------------------------------------------
(* Properties of the fallback table *)

\* the result stored for a scraped URL
ResultOf(url) == DictGet(scrape_results, url)

\* the record the reconciliation built for a scraped URL
BuiltFrom(url) == {new_data[j] : j \in {k \in 1..Len(new_data) : new_data[k].webSitesi = url}}

\* C12: the fallback table is consulted for a URL only when the live
\* extraction produced no AC and no DC price or the fetch/render failed; when
\* the live extraction finds a price, the result holds exactly the extracted
\* lists and the record built from it their minimum AC and maximum DC value
C12_FallbackOnlyAfterEmpty ==
    \A i \in 1..Len(log) :
        LET e == log[i]
            consulted == \E k \in 1..Len(e.tiers) : e.tiers[k] = "fallback"
        IN /\ consulted => (e.failed \/ NoObservations(e.live))
           /\ ~NoObservations(e.live) =>
                 /\ ~consulted
                 /\ ResultOf(e.url).ac = e.live.ac
                 /\ ResultOf(e.url).dc = e.live.dc
                 /\ Done => \E rec \in BuiltFrom(e.url) :
                               /\ IsMinOrNull(rec.acFiyat, e.live.ac)
                               /\ IsMaxOrNull(rec.dcFiyat, e.live.dc)

\* a finished pass in which a URL with a fallback entry had a priced page
C12_Witness ==
    /\ Done
    /\ \E i \in 1..Len(log) :
          /\ log[i].url \in DOMAIN fallback_prices
          /\ ~NoObservations(log[i].live)
          /\ ResultOf(log[i].url).ac # fallback_prices[log[i].url].ac

Hydrated == pc = "hydrated"

\* the dataset records of a URL
DatasetRecords(url) == RecordsFor(dataset, url)

\* C13: after hydration from the last dataset, the fallback entry of every
\* URL with a manual entry equals the manual entry, whatever the dataset
\* holds for that URL
C13_ManualEntryKept ==
    Hydrated =>
        \A url \in DOMAIN manual_fallback :
            /\ url \in DOMAIN fallback_prices
            /\ fallback_prices[url] = manual_fallback[url]

\* hydrated from a dataset holding an in-range price, different from the
\* manual one, for a URL with a manual entry
C13_Witness ==
    /\ Hydrated
    /\ \E url \in DOMAIN manual_fallback : \E rec \in DatasetRecords(url) :
          /\ rec.acFiyat # None
          /\ InRange(rec.acFiyat)
          /\ <<rec.acFiyat>> # manual_fallback[url].ac

\* what hydration may put in the table for a dataset price
Accepted(price) == IF price # None /\ MinPrice <= price /\ price <= MaxPrice
                   THEN <<price>> ELSE <<>>

\* C14: every value hydration adds to the fallback table is a dataset price
\* inside the plausible range, a price outside the range or null adds no
\* value, and a record with no in-range price creates no entry
C14_HydratesPlausibleOnly ==
    Hydrated =>
        /\ \A url \in DOMAIN fallback_prices \ DOMAIN manual_fallback :
              /\ \A p \in SeqToSet(fallback_prices[url].ac)
                         \cup SeqToSet(fallback_prices[url].dc) :
                     MinPrice <= p /\ p <= MaxPrice
              /\ \E rec \in DatasetRecords(url) :
                     /\ fallback_prices[url].ac = Accepted(rec.acFiyat)
                     /\ fallback_prices[url].dc = Accepted(rec.dcFiyat)
        /\ \A i \in 1..Len(dataset) :
              (Accepted(dataset[i].acFiyat) = <<>> /\ Accepted(dataset[i].dcFiyat) = <<>>
                  /\ dataset[i].webSitesi \notin DOMAIN manual_fallback)
                  => dataset[i].webSitesi \notin DOMAIN fallback_prices

\* hydrated from a dataset with a record whose AC price is out of range and
\* whose DC price is in range, and a record with no in-range price
C14_Witness ==
    /\ Hydrated
    /\ \E i, j \in 1..Len(dataset) :
          /\ dataset[i].acFiyat = MaxPrice + 1
          /\ dataset[i].webSitesi \in DOMAIN fallback_prices \ DOMAIN manual_fallback
          /\ fallback_prices[dataset[i].webSitesi].dc # <<>>
          /\ dataset[j].acFiyat = MinPrice - 1
          /\ dataset[j].dcFiyat = None
          /\ dataset[j].webSitesi \notin DOMAIN manual_fallback

-----------------------------------------------------------------------------
(* Properties of the tier selection *)

\* the override set that applies to a logged URL: the keys of js_sites for
\* QuickScraper, the domains of SELENIUM_DOMAINS for ScraperFactory
InOverrideSet(url) ==
    IF pc = "factory"
    THEN ReplaceWww(url.netloc) \in SELENIUM_DOMAINS
    ELSE url \in js_sites

Ran(tiers, step) == \E k \in 1..Len(tiers) : tiers[k] = step

\* C15: a URL of the override set gets no static fetch, it is fetched by the
\* rendered tier (unless that tier cannot start); a URL that is not in the
\* override set is never sent to the rendered tier, it gets a static fetch
C15_OverrideForcesRendered ==
    \A i \in 1..Len(log) :
        IF InOverrideSet(log[i].url)
        THEN /\ ~Ran(log[i].tiers, "static")
             /\ Ran(log[i].tiers, "rendered") \/ log[i].failed
        ELSE /\ ~Ran(log[i].tiers, "rendered")
             /\ ~Ran(log[i].tiers, "acquire")
             /\ log[i].tiers # <<>> /\ log[i].tiers[1] = "static"

\* C15 for QuickScraper alone, whose override set is matched by equality
C15_QuickScraperOverride ==
    pc # "factory" => C15_OverrideForcesRendered

-----------------------------------------------------------------------------
(* Properties of the extraction helpers *)

\* the helper fn has returned
Returned(fn) == ret # <<>> /\ ret.fn = fn

\* the prices the returned value holds
ReturnedPrices ==
    IF ret = <<>> THEN {}
    ELSE IF ret.fn = "extract_price_from_text"
    THEN (IF ret.value = None THEN {} ELSE {ret.value})
    ELSE SeqToSet(ret.value)

\* C16: a price returned by extract_price_from_text lies in the inclusive
\* range it was called with; every price of a QuickScraper extraction lies in
\* 4.0 .. 35.0, and every price of a GenericScraper page result lies in
\* 0.5 .. 50
C16_RangeInvariant ==
    /\ Returned("extract_price_from_text") =>
           \A p \in ReturnedPrices : call.min_price <= p /\ p <= call.max_price
    /\ Returned("_extract_prices") =>
           \A p \in ReturnedPrices : MinPrice <= p /\ p <= MaxPrice
    /\ Returned("scrape") =>
           \A p \in ReturnedPrices : DefaultMin <= p /\ p <= DefaultMax

\* C16 witness: called on "60,00 TL 8,50 TL/kWh", extract_price_from_text
\* has passed over the 60,00 and returned 8.5
C16_Witness ==
    /\ Returned("extract_price_from_text")
    /\ call.text = Chars("60,00 TL 8,50 TL/kWh")
    /\ ret.value = 850

\* a currency marker or a kWh unit somewhere in the text
Marked(text) ==
    \E marker \in {Chars("tl"), <<Lira>>, Chars("try"), Chars("lira"), Chars("kwh")} :
        TextContains(TextLower(text), marker)

\* the text has a power rating "N kW" and neither a currency nor a kWh marker
PowerRatingsOnly(text) == Search(power_pattern, text) # <<>> /\ ~Marked(text)

\* C17: called on a text that has power ratings and no currency or /kWh
\* marker, such as "11 - 22 kW AC sarj", an extraction returns no price
C17_PowerRatingRejected ==
    (ret # <<>> /\ PowerRatingsOnly(call.text)) => ReturnedPrices = {}

\* a date written DD.MM.YYYY
DateForm ==
    <<Rep("digit", 1, 2), Lit("."), Rep("digit", 2, 2), Lit("."), Rep("digit", 4, 4)>>

\* the text has a date DD.MM.YYYY, and no digit outside its dates
DatesOnly(text) ==
    LET dates == FindIter(DateForm, 1, 5, text)
    IN /\ dates # <<>>
       /\ \A i \in 1..Len(text) :
             InClass("digit", text[i]) =>
                 \E k \in 1..Len(dates) : dates[k].start < i /\ i <= dates[k].end

\* C18: called on a text whose only numbers are dates DD.MM.YYYY, such as
\* "18.10.2025", an extraction returns no price
C18_DateRejected ==
    (ret # <<>> /\ DatesOnly(call.text)) => ReturnedPrices = {}

\* the same for QuickScraper._extract_prices alone
C18_QuickScraperRejectsDate ==
    (Returned("_extract_prices") /\ DatesOnly(call.text)) => ReturnedPrices = {}

-----------------------------------------------------------------------------
(* Properties of a pass over a tariff page *)

\* the pass is over and the prices of the page were extracted
PageExtracted == pc = "done" /\ Len(log) = 1 /\ log[1].live # NoLive

\* C19: the record built from a page whose only prices are an AC-labelled
\* tariff a and a DC-labelled tariff d has acFiyat = a and dcFiyat = d
C19_TypedEndToEnd ==
    (PageExtracted /\ "ac_tariff" \in DOMAIN call) =>
        \A j \in 1..Len(dataset) :
            dataset[j].acFiyat = call.ac_tariff /\ dataset[j].dcFiyat = call.dc_tariff

\* the table with the rows AC Tarifesi | 8,50 TL/kWh and
\* DC Tarifesi | 10,99 TL/kWh gives acFiyat = 8.50 and dcFiyat = 10.99
C19_TableExample ==
    (PageExtracted /\ call.text = Chars("AC Tarifesi 8,50 TL/kWh DC Tarifesi 10,99 TL/kWh")) =>
        /\ Len(dataset) = 1
        /\ dataset[1].acFiyat = 850
        /\ dataset[1].dcFiyat = 1099

\* a record was built from the table of the example
C19_TableExampleReached ==
    /\ PageExtracted
    /\ call.text = Chars("AC Tarifesi 8,50 TL/kWh DC Tarifesi 10,99 TL/kWh")
    /\ Len(dataset) = 1

-----------------------------------------------------------------------------
(* Properties of the classifier *)

\* the window before the price: up to 200 characters
WindowBefore == Slice(call.text, Larger(0, call.price_position - 200),
                      call.price_position)

\* where the power ranges of a type end in the window
RangeEnds(type) ==
    LET found == {i \in 1..Len(WindowBefore) :
                     MatchFrom(power_range(type), 1, WindowBefore, i) # <<>>}
    IN {MatchObject(MatchFrom(power_range(type), 1, WindowBefore, i), 1, 9).end :
           i \in found}

\* the type of the power range that ends closest to the price
ClosestRange ==
    LET last(type) == CHOOSE e \in RangeEnds(type) : \A f \in RangeEnds(type) : f <= e
    IN IF last("AC") > last("DC") THEN "AC" ELSE "DC"

\* the classifier was given an offset, and power ranges of both types occur
\* before it
BothRangesBefore ==
    /\ Returned("extract_charging_type")
    /\ call.price_position # None
    /\ RangeEnds("AC") # {}
    /\ RangeEnds("DC") # {}

\* C20: given a price offset with an AC power range and a DC power range in
\* the window before it, the classifier returns the type of the range that
\* ends closest to the offset
C20_ClosestRangeWins == BothRangesBefore => ret.value = ClosestRange

\* on "11 - 22 kW AC 60 - 180 kW DC 8.50 TL/kWh" with the offset of the price
\* the classifier returns DC
C20_Example ==
    (/\ Returned("extract_charging_type")
     /\ call.text = Chars("11 - 22 kW AC 60 - 180 kW DC 8.50 TL/kWh")
     /\ call.price_position = 29) => ret.value = "DC"

\* with one power range of each type before the offset, the closest wins
C20_OneRangeEach ==
    (/\ BothRangesBefore
     /\ Cardinality(RangeEnds("AC")) = 1
     /\ Cardinality(RangeEnds("DC")) = 1) => ret.value = ClosestRange

-----------------------------------------------------------------------------
(* C21 *)

\* C21: cleaning a cleaned text changes nothing:
\* clean_text(clean_text(x)) = clean_text(x)
C21_Idempotent == Returned("clean_text") => clean_text(ret.value) = ret.value

\* on "var. Fiyat = 8 TL;" the second cleaning returns the text of the first
C21_Example ==
    (Returned("clean_text") /\ call.text = Chars("var. Fiyat = 8 TL;"))
        => clean_text(ret.value) = Chars("var Fiyat = 8 TL;")

-----------------------------------------------------------------------------
(* C22 *)

\* the observations of the page result of a fetched page
PageObservations ==
    IF Returned("scrape_table") THEN ret.value.prices ELSE <<>>

\* C22: a page result holds no two observations with the same rounded price,
\* charging type and power when a type and a power were found; such
\* observations of two strategies collapse to one
C22_OnePerPriceTypePower ==
    \A i, j \in 1..Len(PageObservations) :
        (/\ i # j
         /\ PageObservations[i].charging_type # "None"
         /\ PageObservations[i].power # <<>>)
            => <<PageObservations[i].price, PageObservations[i].charging_type,
                 PageObservations[i].power>>
                  # <<PageObservations[j].price, PageObservations[j].charging_type,
                      PageObservations[j].power>>

\* the row "Fiyat | AC 22 kW 8,50 TL/kWh" gives one observation
C22_Example ==
    (Returned("scrape_table") /\ call.text = Chars("AC 22 kW 8,50 TL/kWh"))
        => Len(ret.value.prices) <= 1

-----------------------------------------------------------------------------
(* C23 *)

\* C23: the status of a page result is success exactly when its list of
\* observations is not empty; a fetched page with an empty list has status
\* no_prices_found; the status is error exactly when the page could not be
\* fetched, and then the list is empty
C23_StatusMatchesList ==
    Returned("scrape_table") =>
        /\ ret.value.status \in {"success", "no_prices_found", "error"}
        /\ ret.value.status = "success" <=> ret.value.prices # <<>>
        /\ ret.value.status = "error" <=> ~ret.soup
        /\ ret.value.status = "no_prices_found"
              <=> (ret.soup /\ ret.value.prices = <<>>)

\* a fetched page without a price has been scraped
C23_Witness ==
    /\ Returned("scrape_table")
    /\ ret.soup
    /\ ret.value.prices = <<>>
    /\ ret.value.status = "no_prices_found"

-----------------------------------------------------------------------------
(* C24 *)

\* the context the classifier searches
ClassifierContext ==
    IF call.price_position = None THEN TextLower(call.text)
    ELSE Slice(TextLower(call.text), Larger(0, call.price_position - 200),
               call.price_position)
            \o <<" ">>
            \o Slice(TextLower(call.text), call.price_position,
                     Smaller(Len(call.text), call.price_position + 20))

\* a pattern of the list matches somewhere in the context
ContextMatches(list) ==
    \E k \in 1..Len(list) : \E rx \in list[k] :
        \E i \in 1..(Len(ClassifierContext) + 1) :
            MatchFrom(rx, 1, ClassifierContext, i) # <<>>

\* the classifier has returned without a power range deciding: it was given
\* no offset, or no power range occurs in the context
NoRangeDecides ==
    /\ Returned("extract_charging_type")
    /\ \/ call.price_position = None
       \/ ~ContextMatches(<<{power_range("AC"), power_range("DC")}>>)

\* C24: when no power range decides, a context that matches an AC pattern is
\* AC, also when it matches a DC pattern too; a context that matches DC
\* patterns only is DC; a context that matches neither is None
C24_AcBeforeDc ==
    NoRangeDecides =>
        ret.value = IF ContextMatches(ac_patterns) THEN "AC"
                    ELSE IF ContextMatches(dc_patterns) THEN "DC"
                    ELSE "None"

\* a context that matches an AC pattern and a DC pattern has been classified
\* AC without a power range deciding
C24_Witness ==
    /\ NoRangeDecides
    /\ ContextMatches(ac_patterns)
    /\ ContextMatches(dc_patterns)
    /\ ret.value = "AC"

\* a context that matches DC patterns only has been classified DC
C24_DcOnly ==
    /\ NoRangeDecides
    /\ ~ContextMatches(ac_patterns)
    /\ ContextMatches(dc_patterns)
    /\ ret.value = "DC"

\* a context that matches no pattern has been classified None
C24_Neither ==
    /\ NoRangeDecides
    /\ ~ContextMatches(ac_patterns)
    /\ ~ContextMatches(dc_patterns)
    /\ ret.value = "None"

-----------------------------------------------------------------------------
(* C25 *)

\* the matches of the page text that _extract_prices keeps: not followed by
\* the rest of a date, and in 4.0 .. 35.0
QuickSurvivors ==
    {PageOf(call.text)[k].val :
        k \in {j \in 1..Len(PageOf(call.text)) :
                  /\ ~PageOf(call.text)[j].dated
                  /\ MinPrice <= PageOf(call.text)[j].val
                  /\ PageOf(call.text)[j].val <= MaxPrice}}

\* the decimal numbers of the cleaned text that a currency marker follows,
\* in the range of the call
CurrencyMarked ==
    LET cleaned == clean_text(call.text)
        found == FindIter(<<Number, Separator, Fraction, Spaces, Alt(Currency)>>,
                          1, 3, cleaned)
    IN {p \in {ParsePrice(Slice(cleaned, found[k].gstart, found[k].gend)) :
                  k \in 1..Len(found)} :
           call.min_price <= p /\ p <= call.max_price}

\* the numbers that can be read somewhere in the cleaned text
ReadableNumbers ==
    LET cleaned == clean_text(call.text)
    IN {ParsePrice(SubSeq(cleaned, i, j)) :
           <<i, j>> \in {<<a, b>> \in (1..Len(cleaned)) \X (1..Len(cleaned)) :
                           /\ a <= b
                           /\ RunLength("digit", cleaned, a) > 0
                           /\ \/ b < a + RunLength("digit", cleaned, a)
                              \/ /\ b > a + RunLength("digit", cleaned, a)
                                 /\ b <= a + RunLength("digit", cleaned, a) + 2
                                 /\ InClass("sep", cleaned[a + RunLength("digit", cleaned, a)])
                                 /\ \A c \in (a + RunLength("digit", cleaned, a) + 1)..b :
                                       InClass("digit", cleaned[c])}}

\* C25 as stated: an extractor returns all surviving matches, ascending and
\* without duplicates
C25_AllSortedUnique ==
    /\ Returned("_extract_prices") => ret.value = SortedSeq(QuickSurvivors)
    /\ Returned("extract_price_from_text") => CurrencyMarked \subseteq ReturnedPrices

\* C25: _extract_prices returns all surviving matches, strictly ascending;
\* extract_price_from_text returns None or one number read from the text
C25_SortedOrSingle ==
    /\ Returned("_extract_prices") =>
          /\ SeqToSet(ret.value) = QuickSurvivors
          /\ \A i, j \in 1..Len(ret.value) : i < j => ret.value[i] < ret.value[j]
    /\ Returned("extract_price_from_text") =>
          ret.value \in {None} \cup ReadableNumbers

\* "8,50 TL/kWh 7,4 kW": _extract_prices has returned 7.4 before 8.5
C25_Witness ==
    /\ Returned("_extract_prices")
    /\ call.text = Chars("8,50 TL/kWh 7,4 kW")
    /\ ret.value = <<740, 850>>

\* "3,50 TL 8,50 TL/kWh" with the default range: extract_price_from_text has
\* returned 8.5 alone
C25_SingleReturned ==
    /\ Returned("extract_price_from_text")
    /\ call.text = Chars("3,50 TL 8,50 TL/kWh")
    /\ call.min_price = DefaultMin
    /\ CurrencyMarked = {350, 850}
    /\ ret.value = 850

-----------------------------------------------------------------------------
(* C26 *)

\* the URLs of the batch whose fetch or render failed
FailedUrls == {i \in 1..Len(log) : log[i].failed}

\* C26: after scrape_all every URL of the batch is counted in exactly one of
\* success, no_prices and failed, a URL whose fetch or render failed under
\* failed, so that success + no_prices + failed = total
C26_SummaryPartition ==
    pc = "done" =>
        /\ summary.total = Len(urls)
        /\ summary.success + summary.no_prices + summary.failed = summary.total
        /\ summary.failed = Cardinality(FailedUrls)

\* the counters do add up to the total, with failed at zero
C26_CountersAddUp ==
    pc = "done" =>
        /\ summary.failed = 0
        /\ summary.success + summary.no_prices = summary.total

-----------------------------------------------------------------------------
(* C27 *)

\* C27: a normalized domain that has a record in the dataset before a pass
\* has a record in the dataset after it, whatever the batch and its outcomes
C27_NoDomainDropped == Done => Domains(existing) \subseteq Domains(dataset)

\* a later pass: the dataset before it held two domains, the URL of one was
\* not in the batch and the URL of the other gave no price, and both domains
\* have a record after it
C27_Witness ==
    /\ Done
    /\ Cardinality(Domains(existing)) = 2
    /\ \E i \in 1..Len(existing) : ~DictHas(scrape_results, existing[i].webSitesi)
    /\ \E i \in 1..Len(scrape_results) :
          /\ NoObservations(scrape_results[i].val)
          /\ normalize_domain(scrape_results[i].key) \in Domains(existing)
    /\ Domains(existing) \subseteq Domains(dataset)

-----------------------------------------------------------------------------
(* C28 *)

\* acFiyat or dcFiyat of the record is not null
NonNullPrice(entry) == entry.acFiyat # None \/ entry.dcFiyat # None

\* the normalized domains that have a record with a price in data
PricedDomains(data) ==
    {normalize_domain(data[i].webSitesi) :
        i \in {j \in 1..Len(data) : NonNullPrice(data[j])}}

\* C28: a normalized domain that has a record with a non-null acFiyat or
\* dcFiyat before a pass has a record with a non-null acFiyat or dcFiyat
\* after it
C28_PriceNeverLost ==
    Done => PricedDomains(existing) \subseteq PricedDomains(dataset)

\* a pass in which the URL of a priced record gave an empty result (its
\* fetch failed and no fallback entry was there), and the domain has kept a
\* price
C28_Witness ==
    /\ Done
    /\ \E i \in 1..Len(scrape_results) :
          /\ log[i].failed
          /\ NoObservations(scrape_results[i].val)
          /\ \E e \in RecordsFor(existing, scrape_results[i].key) : NonNullPrice(e)
          /\ normalize_domain(scrape_results[i].key) \in PricedDomains(dataset)

-----------------------------------------------------------------------------
(* C29 *)

\* the URLs of the batch that have a record in the previous dataset and for
\* which live extraction gave no price in this pass
FailedKnown ==
    {i \in 1..Len(log) :
        /\ log[i].live.ac = <<>>
        /\ log[i].live.dc = <<>>
        /\ RecordsFor(existing, log[i].url) # {}}

\* C29: a pass in which live extraction yields no price for a URL of the
\* previous dataset leaves the acFiyat and the dcFiyat of its record as they
\* were, also when the fallback table supplies the result
C29_StableUnderFailure ==
    Done =>
        \A i \in FailedKnown :
            \A old \in RecordsFor(existing, log[i].url) :
                \A new \in RecordsFor(dataset, log[i].url) :
                    /\ new.acFiyat = old.acFiyat
                    /\ new.dcFiyat = old.dcFiyat


\* C29 for the URLs without a manual fallback entry, whose fallback entry is
\* hydrated from the previous dataset
C29_StableWhenHydrated ==
    Done =>
        \A i \in FailedKnown :
            log[i].url \notin DOMAIN manual_fallback =>
                \A old \in RecordsFor(existing, log[i].url) :
                    \A new \in RecordsFor(dataset, log[i].url) :
                        /\ new.acFiyat = old.acFiyat
                        /\ new.dcFiyat = old.dcFiyat

-----------------------------------------------------------------------------
(* C30 *)

\* the URLs of the batch for which live extraction gave a price
LiveExtracted ==
    {i \in 1..Len(log) : log[i].live.ac # <<>> \/ log[i].live.dc # <<>>}

\* C30: a live-extracted result has the same list of AC prices and of DC
\* prices; the record built from it has acFiyat and dcFiyat non-null, the
\* minimum and the maximum of that list, and acFiyat <= dcFiyat
C30_SameListBothTypes ==
    pc \in {"scraping", "done"} =>
        \A i \in LiveExtracted :
            /\ scrape_results[i].key = log[i].url
            /\ scrape_results[i].val.ac = log[i].live.ac
            /\ scrape_results[i].val.dc = log[i].live.dc
            /\ scrape_results[i].val.ac = scrape_results[i].val.dc
            /\ Done =>
                  /\ RecordsFor(new_data, log[i].url) # {}
                  /\ \A entry \in RecordsFor(new_data, log[i].url) :
                        /\ entry.acFiyat # None
                        /\ entry.dcFiyat # None
                        /\ entry.acFiyat = PyMin(log[i].live.ac)
                        /\ entry.dcFiyat = PyMax(log[i].live.ac)
                        /\ entry.acFiyat <= entry.dcFiyat

\* a record built from a live extraction of two prices is in the dataset,
\* the lower price as acFiyat and the higher as dcFiyat
C30_Witness ==
    /\ Done
    /\ \E i \in LiveExtracted :
          /\ Len(log[i].live.ac) = 2
          /\ \E entry \in RecordsFor(dataset, log[i].url) :
                /\ entry.acFiyat = log[i].live.ac[1]
                /\ entry.dcFiyat = log[i].live.ac[2]
                /\ entry.acFiyat < entry.dcFiyat

=============================================================================
